---- MODULE Spec2Model ----
(***************************************************************************)
(* A model of the read-only SQL engine of convex-sql: the parser           *)
(* (src/lib/sql/parser.ts), the query-limits validator and the execution   *)
(* engine (src/lib/sql/limits.ts), run against a DatabaseContext           *)
(* (src/lib/sql/database.ts).                                              *)
(*                                                                         *)
(* One query runs through executeSQL: the token sequence the lexer made is *)
(* parsed, the statement is validated against the QueryLimits, and the     *)
(* statement is executed on the database context.                          *)
(*                                                                         *)
(* Values are integers, in the order the document store compares values   *)
(* of different types: a missing key (undefined) reads as UNDEF, null is   *)
(* NULL, whole numbers are 0 .. FalseVal-1, then the booleans, and string  *)
(* literals are coded from StrBase upwards in their lexical order.  A      *)
(* number that is not whole (a mean) is coded from FracBase upwards as its *)
(* reduced fraction, and NaN is a value of its own.                        *)
(***************************************************************************)
EXTENDS Integers, Sequences, FiniteSets, TLC

VARIABLES
    sql,        \* the SQL string handed to the Lexer, as its lexemes
    tokens,     \* the Token[] handed to the Parser (always ends with EOF)
    limits,     \* the QueryLimits of this call
    db,         \* table name -> sequence of documents, in creation order
    pc,         \* "lexing", "start", "parsed", "validated", "done", "error"
    statement,  \* the SelectStatement, NoStatement before parsing
    parsed,     \* the statement as the parser returned it (history)
    result,     \* the rows executeSQL returned
    error,      \* the Error executeSQL threw, NoError if none
    calls,      \* the calls made on the DatabaseContext, in order
    queryResults,   \* performOptimizedJoin: what Promise.all collects, one
                    \* slot per join value, NoResult while the fetch runs
    settled,        \* the slots of queryResults in the order they were filled
    schemaModule,   \* the schema object imported from schema.ts
    indexCache,     \* queryBuilder.ts: the module-level indexCache
    schemaInfo,     \* adapter.ts: ConvexDatabaseContext.schemaInfo
    received        \* what the last getIndexRegistry or getSchema call returned

\* the state of a running performOptimizedJoin
joinVars == <<queryResults, settled>>

\* the schema object and the memoized index metadata
cacheVars == <<schemaModule, indexCache, schemaInfo, received>>

vars == <<sql, tokens, limits, db, pc, statement, parsed, result, error, calls,
          queryResults, settled, schemaModule, indexCache, schemaInfo, received>>

(***************************************************************************)
(* Bounds of the model.                                                    *)
(***************************************************************************)
MaxUsers == 4       \* the users table holds 0 .. MaxUsers documents
MaxPosts == 3       \* the posts table holds 0 .. MaxPosts documents
MaxLimitArg == 3    \* LIMIT 0 .. LIMIT MaxLimitArg are written in queries
MaxCfg == 3         \* maxRows and maxLimit range over 1 .. MaxCfg

(***************************************************************************)
(* Values.                                                                 *)
(***************************************************************************)
NaN == -3           \* JavaScript NaN
UNDEF == -2         \* JavaScript undefined: the value of a missing key
NULL == -1          \* JavaScript null
FalseVal == 200     \* the boolean false
TrueVal == 201      \* the boolean true
StrBase == 300      \* codes of string literals start here
FracBase == 1000000 \* codes of numbers that are not whole start here
FracDen == 100      \* p/q is coded FracBase + p * FracDen + q
NONE == ""          \* an optional string that is undefined

IsString(v) == v >= StrBase /\ v < FracBase
IsBoolean(v) == v = FalseVal \/ v = TrueVal
IsFraction(v) == v >= FracBase
Numer(v) == IF IsFraction(v) THEN (v - FracBase) \div FracDen ELSE v
Denom(v) == IF IsFraction(v) THEN (v - FracBase) % FracDen ELSE 1

RECURSIVE Gcd(_, _)
Gcd(a, b) == IF b = 0 THEN a ELSE Gcd(b, a % b)

\* the JavaScript number p / q, for p >= 0 and q > 0
Fraction(p, q) ==
    LET g == Gcd(p, q)
    IN IF (q \div g) = 1 THEN p \div g
       ELSE FracBase + (p \div g) * FracDen + (q \div g)

\* Number(v)
ToNumber(v) ==
    IF v = NULL THEN 0
    ELSE IF v = UNDEF \/ v = NaN \/ IsString(v) THEN NaN
    ELSE IF IsBoolean(v) THEN v - FalseVal
    ELSE v

\* a < b on JavaScript numbers that are not NaN
NumLess(a, b) == Numer(a) * Denom(b) < Numer(b) * Denom(a)

\* the relational operators of JavaScript (a < b, a > b, a <= b, a >= b):
\* two strings compare as strings, otherwise both sides are converted to
\* numbers (null to 0) and any NaN makes the comparison false
JsRelational(operator, a, b) ==
    IF IsString(a) /\ IsString(b)
    THEN CASE operator = ">" -> a > b
           [] operator = "<" -> a < b
           [] operator = ">=" -> a >= b
           [] operator = "<=" -> a <= b
    ELSE LET x == ToNumber(a)
             y == ToNumber(b)
         IN IF x = NaN \/ y = NaN THEN FALSE
            ELSE CASE operator = ">" -> NumLess(y, x)
                   [] operator = "<" -> NumLess(x, y)
                   [] operator = ">=" -> ~NumLess(x, y)
                   [] operator = "<=" -> ~NumLess(y, x)

IsNullish(v) == v = NULL \/ v = UNDEF

\* a ?? b
Coalesce(a, b) == IF IsNullish(a) THEN b ELSE a

\* row[key]
Get(row, key) == IF key \in DOMAIN row THEN row[key] ELSE UNDEF

Min2(a, b) == IF a <= b THEN a ELSE b

\* Array.prototype.slice(0, n) for n >= 0
Slice(s, n) == SubSeq(s, 1, Min2(n, Len(s)))

RECURSIVE SeqSum(_)
SeqSum(s) == IF s = <<>> THEN 0 ELSE Head(s) + SeqSum(Tail(s))

Range(s) == {s[i] : i \in 1..Len(s)}

\* the number of times x occurs in s
Occurrences(s, x) == Cardinality({i \in 1..Len(s) : s[i] = x})

\* s and t hold the same elements the same number of times
SameMultiset(s, t) ==
    /\ Len(s) = Len(t)
    /\ \A x \in Range(s) \cup Range(t) : Occurrences(s, x) = Occurrences(t, x)

(***************************************************************************)
(* Tokens (Token of types.ts; the source offset is left out, it is only    *)
(* quoted in error messages).                                              *)
(***************************************************************************)
\* String.prototype.toUpperCase on the words of the model
ToUpper(s) ==
    CASE s = "select" -> "SELECT"
      [] s = "insert" -> "INSERT"
      [] s = "count" -> "COUNT"
      [] s = "Count" -> "COUNT"
      [] s = "sum" -> "SUM"
      [] s = "min" -> "MIN"
      [] s = "max" -> "MAX"
      [] s = "avg" -> "AVG"
      [] OTHER -> s

\* the keywords of the lexer
KEYWORDS ==
    {"SELECT", "FROM", "WHERE", "ORDER", "BY", "LIMIT", "AND", "OR", "ASC",
     "DESC", "AS", "INNER", "JOIN", "ON", "GROUP", "HAVING",
     "INSERT", "UPDATE", "DELETE", "DROP", "CREATE", "ALTER", "TRUNCATE",
     "REPLACE", "MERGE", "GRANT", "REVOKE"}

\* Lexer.tokenizeIdentifierOrKeyword: the token of one word
tokenizeIdentifierOrKeyword(w) ==
    IF ToUpper(w) \in KEYWORDS
    THEN [type |-> "KEYWORD", value |-> ToUpper(w)]
    ELSE [type |-> "IDENTIFIER", value |-> w]

W(w) == tokenizeIdentifierOrKeyword(w)
Num(s) == [type |-> "NUMBER", value |-> s]
Str(s) == [type |-> "STRING", value |-> s]
Op(s) == [type |-> "OPERATOR", value |-> s]
Star == [type |-> "STAR", value |-> "*"]
Comma == [type |-> "COMMA", value |-> ","]
Dot == [type |-> "DOT", value |-> "."]
At == [type |-> "AT", value |-> "@"]
LParen == [type |-> "LPAREN", value |-> "("]
RParen == [type |-> "RPAREN", value |-> ")"]
EOF == [type |-> "EOF", value |-> ""]

\* the decimal numeral of n
RECURSIVE NumStr(_)
NumStr(n) ==
    LET d == <<"0", "1", "2", "3", "4", "5", "6", "7", "8", "9">>
    IN IF n < 10 THEN d[n + 1] ELSE NumStr(n \div 10) \o d[(n % 10) + 1]

\* parseInt / parseFloat of an integer numeral
ParseNumber(s) == CHOOSE n \in 0..(FalseVal - 1) : NumStr(n) = s

\* the string literals of the model, in lexical order
StringLiterals == <<"active", "inactive", "pending">>

\* the value of a string literal
StrVal(s) == StrBase + (CHOOSE i \in 1..Len(StringLiterals) : StringLiterals[i] = s)

(***************************************************************************)
(* The AST (types of the parser).  An optional field that is undefined is  *)
(* NONE (a string), NoLimit (the limit), NoClause (a WhereClause) or the   *)
(* empty sequence (joins, groupBy, orderBy: the parser never leaves one of *)
(* them defined and empty).                                                *)
(***************************************************************************)
NoLimit == -1
NoClause == [type |-> "NONE"]
NoStatement == [type |-> "NONE"]
\* an Error: its kind, and the name and the number its message quotes
NoError == [kind |-> "none", arg |-> "", num |-> 0]
Err(kind, arg) == [kind |-> kind, arg |-> arg, num |-> 0]
ErrNum(kind, arg, num) == [kind |-> kind, arg |-> arg, num |-> num]

\* a parser routine returns the new position and a value, or an error
POk(cur, val) == [ok |-> TRUE, cur |-> cur, val |-> val, err |-> NoError]
PErr(e) == [ok |-> FALSE, cur |-> 0, val |-> <<>>, err |-> e]

peek(toks, cur) == toks[cur]
isAtEnd(toks, cur) == peek(toks, cur).type = "EOF"
\* Parser.advance: the position after it
advance(toks, cur) == IF ~isAtEnd(toks, cur) THEN cur + 1 ELSE cur
check(toks, cur, type) == peek(toks, cur).type = type
checkValue(toks, cur, type, value) ==
    peek(toks, cur).type = type /\ peek(toks, cur).value = value

\* Parser.consume(type): val is the token consumed
consume(toks, cur, type) ==
    IF check(toks, cur, type)
    THEN POk(advance(toks, cur), peek(toks, cur))
    ELSE PErr(Err("Expected " \o type, peek(toks, cur).value))

\* Parser.consume(type, value)
consumeValue(toks, cur, type, value) ==
    IF checkValue(toks, cur, type, value)
    THEN POk(advance(toks, cur), peek(toks, cur))
    ELSE PErr(Err("Expected " \o type \o " " \o value, peek(toks, cur).value))

\* the rest of a parser routine after a step: the step's error, or the
\* routine continued with the step's result
Then(step, Continue(_)) == IF ~step.ok THEN step ELSE Continue(step)

\* an optional "AS alias" after a column: val is the alias or NONE
parseAlias(toks, cur) ==
    IF checkValue(toks, cur, "KEYWORD", "AS")
    THEN Then(consume(toks, advance(toks, cur), "IDENTIFIER"),
              LAMBDA a : POk(a.cur, a.val.value))
    ELSE POk(cur, NONE)

StarArg == [type |-> "STAR", table |-> NONE, name |-> NONE]
TableStarArg(t) == [type |-> "TABLE_STAR", table |-> t, name |-> NONE]
ColumnArg(t, n) == [type |-> "COLUMN", table |-> t, name |-> n]

\* one argument of Parser.parseFunctionArgs
parseFunctionArg(toks, cur) ==
    IF check(toks, cur, "STAR") THEN POk(advance(toks, cur), StarArg)
    ELSE Then(consume(toks, cur, "IDENTIFIER"), LAMBDA first :
            IF check(toks, first.cur, "DOT")
            THEN IF check(toks, advance(toks, first.cur), "STAR")
                 THEN POk(advance(toks, advance(toks, first.cur)),
                          TableStarArg(first.val.value))
                 ELSE Then(consume(toks, advance(toks, first.cur), "IDENTIFIER"),
                           LAMBDA column :
                              POk(column.cur,
                                  ColumnArg(first.val.value, column.val.value)))
            ELSE POk(first.cur, ColumnArg(NONE, first.val.value)))

\* the do .. while (match(COMMA)) loop of Parser.parseFunctionArgs
RECURSIVE parseFunctionArgsLoop(_, _, _)
parseFunctionArgsLoop(toks, cur, args) ==
    Then(parseFunctionArg(toks, cur), LAMBDA a :
        IF check(toks, a.cur, "COMMA")
        THEN parseFunctionArgsLoop(toks, advance(toks, a.cur), Append(args, a.val))
        ELSE POk(a.cur, Append(args, a.val)))

\* Parser.parseFunctionArgs
parseFunctionArgs(toks, cur) ==
    IF ~check(toks, cur, "RPAREN")
    THEN parseFunctionArgsLoop(toks, cur, <<>>)
    ELSE POk(cur, <<>>)

StarColumn ==
    [type |-> "STAR", table |-> NONE, name |-> NONE, args |-> <<>>, alias |-> NONE]
TableStarColumn(t) ==
    [type |-> "TABLE_STAR", table |-> t, name |-> NONE, args |-> <<>>, alias |-> NONE]
PlainColumn(t, n, a) ==
    [type |-> "COLUMN", table |-> t, name |-> n, args |-> <<>>, alias |-> a]
FunctionColumn(n, args, a) ==
    [type |-> "FUNCTION", table |-> NONE, name |-> n, args |-> args, alias |-> a]

\* one column of Parser.parseColumns
parseColumn(toks, cur) ==
    Then(consume(toks, cur, "IDENTIFIER"), LAMBDA first :
        IF check(toks, first.cur, "LPAREN")
        THEN Then(parseFunctionArgs(toks, advance(toks, first.cur)), LAMBDA args :
             Then(consume(toks, args.cur, "RPAREN"), LAMBDA rp :
             Then(parseAlias(toks, rp.cur), LAMBDA alias :
                 POk(alias.cur,
                     FunctionColumn(ToUpper(first.val.value), args.val, alias.val)))))
        ELSE IF check(toks, first.cur, "DOT")
        THEN IF check(toks, advance(toks, first.cur), "STAR")
             THEN POk(advance(toks, advance(toks, first.cur)),
                      TableStarColumn(first.val.value))
             ELSE Then(consume(toks, advance(toks, first.cur), "IDENTIFIER"),
                       LAMBDA column :
                  Then(parseAlias(toks, column.cur), LAMBDA alias :
                      POk(alias.cur,
                          PlainColumn(first.val.value, column.val.value, alias.val))))
        ELSE Then(parseAlias(toks, first.cur), LAMBDA alias :
                 POk(alias.cur, PlainColumn(NONE, first.val.value, alias.val))))

\* the do .. while (match(COMMA)) loop of Parser.parseColumns
RECURSIVE parseColumnsLoop(_, _, _)
parseColumnsLoop(toks, cur, columns) ==
    Then(parseColumn(toks, cur), LAMBDA c :
        IF check(toks, c.cur, "COMMA")
        THEN parseColumnsLoop(toks, advance(toks, c.cur), Append(columns, c.val))
        ELSE POk(c.cur, Append(columns, c.val)))

\* Parser.parseColumns
parseColumns(toks, cur) ==
    IF check(toks, cur, "STAR")
    THEN POk(advance(toks, cur), <<StarColumn>>)
    ELSE parseColumnsLoop(toks, cur, <<>>)

\* Parser.parseTableWithIndex: val is [table, index]
parseTableWithIndex(toks, cur) ==
    Then(consume(toks, cur, "IDENTIFIER"), LAMBDA table :
        IF check(toks, table.cur, "AT")
        THEN Then(consume(toks, advance(toks, table.cur), "IDENTIFIER"),
                  LAMBDA index :
                     POk(index.cur,
                         [table |-> table.val.value, index |-> index.val.value]))
        ELSE POk(table.cur, [table |-> table.val.value, index |-> NONE]))

\* one "a.x = b.y" of Parser.parseJoin (parseJoinEquality)
parseJoinEquality(toks, cur) ==
    Then(consume(toks, cur, "IDENTIFIER"), LAMBDA leftTable :
    Then(consume(toks, leftTable.cur, "DOT"), LAMBDA d1 :
    Then(consume(toks, d1.cur, "IDENTIFIER"), LAMBDA leftField :
    Then(consume(toks, leftField.cur, "OPERATOR"), LAMBDA operator :
        IF operator.val.value # "="
        THEN PErr(Err("JoinOperator", operator.val.value))
        ELSE
    Then(consume(toks, operator.cur, "IDENTIFIER"), LAMBDA rightTable :
    Then(consume(toks, rightTable.cur, "DOT"), LAMBDA d2 :
    Then(consume(toks, d2.cur, "IDENTIFIER"), LAMBDA rightField :
        POk(rightField.cur,
            [leftTable |-> leftTable.val.value,
             leftField |-> leftField.val.value,
             operator |-> "=",
             rightTable |-> rightTable.val.value,
             rightField |-> rightField.val.value]))))))))

\* the equalities of an ON clause, chained with AND
RECURSIVE parseJoinConditions(_, _, _)
parseJoinConditions(toks, cur, conditions) ==
    Then(parseJoinEquality(toks, cur), LAMBDA e :
        IF checkValue(toks, e.cur, "KEYWORD", "AND")
        THEN parseJoinConditions(toks, advance(toks, e.cur), Append(conditions, e.val))
        ELSE POk(e.cur, Append(conditions, e.val)))

\* Parser.parseJoin
parseJoin(toks, cur) ==
    Then(consumeValue(toks, cur, "KEYWORD", "INNER"), LAMBDA inner :
    Then(consumeValue(toks, inner.cur, "KEYWORD", "JOIN"), LAMBDA join :
    Then(parseTableWithIndex(toks, join.cur), LAMBDA t :
    Then(consumeValue(toks, t.cur, "KEYWORD", "ON"), LAMBDA on :
    Then(parseJoinConditions(toks, on.cur, <<>>), LAMBDA conditions :
        POk(conditions.cur,
            [type |-> "INNER", table |-> t.val.table, index |-> t.val.index,
             on |-> conditions.val]))))))

\* the while (check(KEYWORD, INNER)) loop of Parser.parseSelect
RECURSIVE parseJoins(_, _, _)
parseJoins(toks, cur, joins) ==
    IF checkValue(toks, cur, "KEYWORD", "INNER")
    THEN Then(parseJoin(toks, cur), LAMBDA j :
             parseJoins(toks, j.cur, Append(joins, j.val)))
    ELSE POk(cur, joins)

\* Array.prototype.join
RECURSIVE JoinStrings(_, _)
JoinStrings(parts, sep) ==
    IF parts = <<>> THEN ""
    ELSE IF Len(parts) = 1 THEN parts[1]
    ELSE parts[1] \o sep \o JoinStrings(Tail(parts), sep)

\* Parser.formatFunctionArgsForComparison (an argument is never a FUNCTION:
\* parseFunctionArgs makes none)
formatFunctionArgsForComparison(args) ==
    JoinStrings([i \in 1..Len(args) |->
                    CASE args[i].type = "STAR" -> "*"
                      [] args[i].type = "TABLE_STAR" -> args[i].table \o ".*"
                      [] args[i].type = "COLUMN" ->
                            IF args[i].table # NONE
                            THEN args[i].table \o "." \o args[i].name
                            ELSE args[i].name
                      [] OTHER -> "?"],
                ", ")

\* String.prototype.toLowerCase on the literal words of the model
ToLower(s) ==
    CASE s = "TRUE" -> "true"
      [] s = "FALSE" -> "false"
      [] s = "NULL" -> "null"
      [] OTHER -> s

Comparison(t, f, o, v) ==
    [type |-> "COMPARISON", table |-> t, field |-> f, operator |-> o, value |-> v]

\* the literal of Parser.parseComparison
parseLiteral(toks, cur) ==
    IF check(toks, cur, "STRING")
    THEN POk(advance(toks, cur), StrVal(peek(toks, cur).value))
    ELSE IF check(toks, cur, "NUMBER")
    THEN POk(advance(toks, cur), ParseNumber(peek(toks, cur).value))
    ELSE IF check(toks, cur, "IDENTIFIER")
    THEN IF ToLower(peek(toks, cur).value) = "true"
         THEN POk(advance(toks, cur), TrueVal)
         ELSE IF ToLower(peek(toks, cur).value) = "false"
         THEN POk(advance(toks, cur), FalseVal)
         ELSE IF ToLower(peek(toks, cur).value) = "null"
         THEN POk(advance(toks, cur), NULL)
         ELSE PErr(Err("UnexpectedIdentifier", peek(toks, cur).value))
    ELSE PErr(Err("ExpectedValue", peek(toks, cur).value))

\* the field of Parser.parseComparison: val is [table, field]
parseComparisonField(toks, cur) ==
    Then(consume(toks, cur, "IDENTIFIER"), LAMBDA first :
        IF check(toks, first.cur, "LPAREN")
        THEN Then(parseFunctionArgs(toks, advance(toks, first.cur)), LAMBDA args :
             Then(consume(toks, args.cur, "RPAREN"), LAMBDA rp :
                 POk(rp.cur,
                     [table |-> NONE,
                      field |-> first.val.value \o "("
                                \o formatFunctionArgsForComparison(args.val)
                                \o ")"])))
        ELSE IF check(toks, first.cur, "DOT")
        THEN Then(consume(toks, advance(toks, first.cur), "IDENTIFIER"),
                  LAMBDA field :
                     POk(field.cur,
                         [table |-> first.val.value, field |-> field.val.value]))
        ELSE POk(first.cur, [table |-> NONE, field |-> first.val.value]))

\* Parser.parseComparison
parseComparison(toks, cur) ==
    Then(parseComparisonField(toks, cur), LAMBDA f :
    Then(consume(toks, f.cur, "OPERATOR"), LAMBDA operator :
    Then(parseLiteral(toks, operator.cur), LAMBDA value :
        POk(value.cur,
            Comparison(f.val.table, f.val.field, operator.val.value, value.val)))))

\* the while (check(KEYWORD, AND)) loop of Parser.parseAndExpression
RECURSIVE parseAndLoop(_, _, _)
parseAndLoop(toks, cur, left) ==
    IF checkValue(toks, cur, "KEYWORD", "AND")
    THEN Then(parseComparison(toks, advance(toks, cur)), LAMBDA right :
             parseAndLoop(toks, right.cur,
                          [type |-> "AND", left |-> left, right |-> right.val]))
    ELSE POk(cur, left)

\* Parser.parseAndExpression grouping a chain of ANDs to the right:
\* a AND b AND c as AND(a, AND(b, c))
parseAndExpression_GroupingToTheRight(toks, cur) ==
    Then(parseComparison(toks, cur), LAMBDA left :
        IF checkValue(toks, left.cur, "KEYWORD", "AND")
        THEN Then(parseComparison(toks, advance(toks, left.cur)), LAMBDA next :
             Then(parseAndLoop(toks, next.cur, next.val), LAMBDA rest :
                 POk(rest.cur, [type |-> "AND", left |-> left.val, right |-> rest.val])))
        ELSE POk(left.cur, left.val))

\* Parser.parseAndExpression
parseAndExpression(toks, cur) ==
    Then(parseComparison(toks, cur), LAMBDA left :
        parseAndLoop(toks, left.cur, left.val))

\* the while (check(KEYWORD, OR)) loop of Parser.parseOrExpression
RECURSIVE parseOrLoop(_, _, _)
parseOrLoop(toks, cur, left) ==
    IF checkValue(toks, cur, "KEYWORD", "OR")
    THEN Then(parseAndExpression(toks, advance(toks, cur)), LAMBDA right :
             parseOrLoop(toks, right.cur,
                         [type |-> "OR", left |-> left, right |-> right.val]))
    ELSE POk(cur, left)

\* Parser.parseOrExpression
parseOrExpression(toks, cur) ==
    Then(parseAndExpression(toks, cur), LAMBDA left :
        parseOrLoop(toks, left.cur, left.val))

\* Parser.parseWhere
parseWhere(toks, cur) == parseOrExpression(toks, cur)

\* "field" or "table.field" of GROUP BY and ORDER BY: val is [table, field]
parseQualifiedField(toks, cur) ==
    Then(consume(toks, cur, "IDENTIFIER"), LAMBDA first :
        IF check(toks, first.cur, "DOT")
        THEN Then(consume(toks, advance(toks, first.cur), "IDENTIFIER"),
                  LAMBDA field :
                     POk(field.cur,
                         [table |-> first.val.value, field |-> field.val.value]))
        ELSE POk(first.cur, [table |-> NONE, field |-> first.val.value]))

\* Parser.parseGroupBy
RECURSIVE parseGroupBy(_, _, _)
parseGroupBy(toks, cur, groupBy) ==
    Then(parseQualifiedField(toks, cur), LAMBDA g :
        IF check(toks, g.cur, "COMMA")
        THEN parseGroupBy(toks, advance(toks, g.cur), Append(groupBy, g.val))
        ELSE POk(g.cur, Append(groupBy, g.val)))

\* the optional ASC or DESC of Parser.parseOrderBy: val is the direction
parseDirection(toks, cur) ==
    IF checkValue(toks, cur, "KEYWORD", "ASC")
    THEN POk(advance(toks, cur), "asc")
    ELSE IF checkValue(toks, cur, "KEYWORD", "DESC")
    THEN POk(advance(toks, cur), "desc")
    ELSE POk(cur, "asc")

\* Parser.parseOrderBy
RECURSIVE parseOrderBy(_, _, _)
parseOrderBy(toks, cur, orderBy) ==
    Then(parseQualifiedField(toks, cur), LAMBDA f :
    Then(parseDirection(toks, f.cur), LAMBDA direction :
        IF check(toks, direction.cur, "COMMA")
        THEN parseOrderBy(toks, advance(toks, direction.cur),
                          Append(orderBy, [table |-> f.val.table,
                                           field |-> f.val.field,
                                           direction |-> direction.val]))
        ELSE POk(direction.cur,
                 Append(orderBy, [table |-> f.val.table, field |-> f.val.field,
                                  direction |-> direction.val]))))

\* an optional clause of Parser.parseSelect: "WHERE pred" or "HAVING pred"
parseOptionalPredicate(toks, cur, keyword) ==
    IF checkValue(toks, cur, "KEYWORD", keyword)
    THEN parseWhere(toks, advance(toks, cur))
    ELSE POk(cur, NoClause)

\* the optional "GROUP BY ..." of Parser.parseSelect
parseOptionalGroupBy(toks, cur) ==
    IF checkValue(toks, cur, "KEYWORD", "GROUP")
    THEN Then(consumeValue(toks, advance(toks, cur), "KEYWORD", "BY"), LAMBDA by :
             parseGroupBy(toks, by.cur, <<>>))
    ELSE POk(cur, <<>>)

\* the optional "ORDER BY ..." of Parser.parseSelect
parseOptionalOrderBy(toks, cur) ==
    IF checkValue(toks, cur, "KEYWORD", "ORDER")
    THEN Then(consumeValue(toks, advance(toks, cur), "KEYWORD", "BY"), LAMBDA by :
             parseOrderBy(toks, by.cur, <<>>))
    ELSE POk(cur, <<>>)

\* the optional "LIMIT n" of Parser.parseSelect
parseOptionalLimit(toks, cur) ==
    IF checkValue(toks, cur, "KEYWORD", "LIMIT")
    THEN Then(consume(toks, advance(toks, cur), "NUMBER"), LAMBDA limitToken :
             POk(limitToken.cur, ParseNumber(limitToken.val.value)))
    ELSE POk(cur, NoLimit)

\* Parser.parseSelect
parseSelect(toks) ==
    Then(consumeValue(toks, 1, "KEYWORD", "SELECT"), LAMBDA select :
    Then(parseColumns(toks, select.cur), LAMBDA columns :
    Then(consumeValue(toks, columns.cur, "KEYWORD", "FROM"), LAMBDA from :
    Then(parseTableWithIndex(toks, from.cur), LAMBDA t :
    Then(parseJoins(toks, t.cur, <<>>), LAMBDA joins :
    Then(parseOptionalPredicate(toks, joins.cur, "WHERE"), LAMBDA where :
    Then(parseOptionalGroupBy(toks, where.cur), LAMBDA groupBy :
    Then(parseOptionalPredicate(toks, groupBy.cur, "HAVING"), LAMBDA having :
    Then(parseOptionalOrderBy(toks, having.cur), LAMBDA orderBy :
    Then(parseOptionalLimit(toks, orderBy.cur), LAMBDA limit :
    Then(consume(toks, limit.cur, "EOF"), LAMBDA eof :
        POk(eof.cur,
            [type |-> "SELECT",
             columns |-> columns.val,
             from |-> t.val.table,
             fromIndex |-> t.val.index,
             joins |-> joins.val,
             where |-> where.val,
             groupBy |-> groupBy.val,
             having |-> having.val,
             orderBy |-> orderBy.val,
             limit |-> limit.val]))))))))))))

\* a parser that does not list MERGE among the write operations
unsupportedCommands_WithoutMerge ==
    {"INSERT", "UPDATE", "DELETE", "DROP", "CREATE", "ALTER", "TRUNCATE",
     "REPLACE", "GRANT", "REVOKE"}

\* the commands Parser.parse rejects as write operations
unsupportedCommands ==
    {"INSERT", "UPDATE", "DELETE", "DROP", "CREATE", "ALTER", "TRUNCATE",
     "REPLACE", "MERGE", "GRANT", "REVOKE"}

\* Parser.parse
parse(toks) ==
    IF Len(toks) = 0 THEN PErr(Err("EmptyQuery", ""))
    ELSE LET firstToken == toks[1]
         IN IF firstToken.type # "KEYWORD" \/ firstToken.value = ""
            THEN PErr(IF firstToken.value # ""
                      THEN Err("ExpectedCommand", firstToken.value)
                      ELSE Err("EmptyQuery", ""))
            ELSE LET command == ToUpper(firstToken.value)
                 IN IF command \in unsupportedCommands
                    THEN PErr(Err("WriteNotSupported", command))
                    ELSE IF command # "SELECT"
                    THEN PErr(Err("UnsupportedCommand", command))
                    ELSE parseSelect(toks)

(***************************************************************************)
(* The database context (DatabaseContext, QueryBuilder, FilterBuilder and  *)
(* IndexFilterBuilder of database.ts, as the Convex adapter implements     *)
(* them).                                                                  *)
(***************************************************************************)
\* getSchema(): the indexes of schema.ts, and a two-column index
Schema ==
    [users |-> [indexes |-> [by_status |-> <<"status">>,
                             by_status_and_age |-> <<"status", "age">>]],
     posts |-> [indexes |-> [by_author |-> <<"authorId">>]]]

TableNames == DOMAIN Schema

\* the field names of the documents
FieldNames == {"_id", "_creationTime", "status", "age", "authorId"}

\* the documents seedDatabase inserts, in insertion order
SeedUsers ==
    <<[_id |-> 1, _creationTime |-> 1, age |-> 28, status |-> StrVal("active")],
      [_id |-> 2, _creationTime |-> 2, age |-> 35, status |-> StrVal("active")],
      [_id |-> 3, _creationTime |-> 3, age |-> 17, status |-> StrVal("pending")],
      [_id |-> 4, _creationTime |-> 4, age |-> 42, status |-> StrVal("active")],
      [_id |-> 5, _creationTime |-> 5, age |-> 23, status |-> StrVal("inactive")]>>

SeedPosts ==
    <<[_id |-> 11, _creationTime |-> 11, authorId |-> 1],
      [_id |-> 12, _creationTime |-> 12, authorId |-> 1],
      [_id |-> 13, _creationTime |-> 13, authorId |-> 2],
      [_id |-> 14, _creationTime |-> 14, authorId |-> 4]>>

\* the database after nUsers users and nPosts posts were inserted
Database(nUsers, nPosts) ==
    [users |-> SubSeq(SeedUsers, 1, Min2(nUsers, Len(SeedUsers))),
     posts |-> SubSeq(SeedPosts, 1, Min2(nPosts, Len(SeedPosts)))]

\* FilterBuilder / IndexFilterBuilder: eq, neq, gt, lt, gte, lte on values
Compare(operator, a, b) ==
    CASE operator = "=" -> a = b
      [] operator = "!=" -> a # b
      [] operator = ">" -> a > b
      [] operator = "<" -> a < b
      [] operator = ">=" -> a >= b
      [] operator = "<=" -> a <= b

\* ctx.query(table): a QueryBuilder with no index, no filter, ascending
NewQuery(table) ==
    [table |-> table, index |-> NONE, range |-> <<>>, filters |-> <<>>,
     order |-> "asc"]

\* QueryBuilder.withIndex: range is the chain of eq/gt/lt/gte/lte calls
withIndex(query, indexName, range) ==
    [query EXCEPT !.index = indexName, !.range = range]

\* QueryBuilder.filter: pred is the expression buildFilterExpression built
withFilter(query, pred) == [query EXCEPT !.filters = Append(@, pred)]

\* QueryBuilder.order
withOrder(query, direction) == [query EXCEPT !.order = direction]

\* a precedes b in the order of the index on columns (ties: creation order)
RECURSIVE IndexLess(_, _, _)
IndexLess(a, b, columns) ==
    IF columns = <<>> THEN FALSE
    ELSE LET x == Get(a, Head(columns))
             y == Get(b, Head(columns))
         IN IF x # y THEN x < y ELSE IndexLess(a, b, Tail(columns))

\* rows sorted by the index columns, stable
RECURSIVE IndexSort(_, _)
IndexSort(rows, columns) ==
    IF rows = <<>> THEN <<>>
    ELSE LET sorted == IndexSort(SubSeq(rows, 1, Len(rows) - 1), columns)
             last == rows[Len(rows)]
             k == Cardinality({i \in 1..Len(sorted) :
                                  ~IndexLess(last, sorted[i], columns)})
         IN SubSeq(sorted, 1, k) \o <<last>> \o SubSeq(sorted, k + 1, Len(sorted))

Reverse(s) == [i \in 1..Len(s) |-> s[Len(s) + 1 - i]]

\* the value of a filter expression on one document
RECURSIVE EvalPred(_, _)
EvalPred(doc, pred) ==
    CASE pred.type = "TRUE" -> TRUE
      [] pred.type = "CMP" -> Compare(pred.operator, Get(doc, pred.field), pred.value)
      [] pred.type = "AND" -> EvalPred(doc, pred.left) /\ EvalPred(doc, pred.right)
      [] pred.type = "OR" -> EvalPred(doc, pred.left) \/ EvalPred(doc, pred.right)

\* QueryBuilder.collect
collect(data, query) ==
    LET all == data[query.table]
        indexed == IF query.index = NONE THEN all
                   ELSE IndexSort(all, Schema[query.table].indexes[query.index])
        InRange(doc) ==
            \A i \in 1..Len(query.range) :
                Compare(query.range[i].operator,
                        Get(doc, query.range[i].field), query.range[i].value)
        Passes(doc) ==
            \A i \in 1..Len(query.filters) : EvalPred(doc, query.filters[i])
        Keep(doc) == InRange(doc) /\ Passes(doc)
        kept == SelectSeq(indexed, Keep)
    IN IF query.order = "desc" THEN Reverse(kept) ELSE kept

\* QueryBuilder.take
take(data, query, n) == Slice(collect(data, query), n)

(***************************************************************************)
(* The query-limits validator (limits.ts).                                 *)
(***************************************************************************)
\* a value, named in what follows
Let(value, In(_)) == In(value)

\* the QueryLimits the package exports (DEFAULT, PERMISSIVE, STRICT), at the
\* scale of the model
QueryLimits(maxRows, maxLimit, requireLimit, exemptTables) ==
    [maxRows |-> maxRows, maxLimit |-> maxLimit, requireLimit |-> requireLimit,
     exemptTables |-> exemptTables]

\* !statement.limit: the limit is undefined or 0
LimitIsFalsy(s) == s.limit = NoLimit \/ s.limit = 0

\* hasOnlyAggregateFunctions
hasOnlyAggregateFunctions(s) ==
    IF Len(s.groupBy) > 0 THEN FALSE
    ELSE /\ Len(s.columns) > 0
         /\ \A i \in 1..Len(s.columns) : s.columns[i].type = "FUNCTION"

\* the LIMIT-is-required check of validateQueryLimits
LimitRequiredFails(s, lim) ==
    /\ lim.requireLimit
    /\ LimitIsFalsy(s)
    /\ s.groupBy = <<>>
    /\ ~hasOnlyAggregateFunctions(s)
    /\ s.from \notin lim.exemptTables

\* the LIMIT-exceeds-maximum check of validateQueryLimits
LimitExceeded(s, lim) == ~LimitIsFalsy(s) /\ s.limit > lim.maxLimit

\* the default assignment of validateQueryLimits
DefaultLimitApplies(s) ==
    LimitIsFalsy(s) /\ s.groupBy = <<>> /\ ~hasOnlyAggregateFunctions(s)

\* validateQueryLimits: the statement after it, or the Error thrown
validateQueryLimits(s, lim) ==
    IF LimitRequiredFails(s, lim)
    THEN [ok |-> FALSE, statement |-> s,
          err |-> ErrNum("LimitRequired", s.from, lim.maxLimit)]
    ELSE IF LimitExceeded(s, lim)
    THEN [ok |-> FALSE, statement |-> s,
          err |-> ErrNum("LimitExceeded", NumStr(s.limit), lim.maxLimit)]
    ELSE [ok |-> TRUE,
          statement |-> IF DefaultLimitApplies(s)
                        THEN [s EXCEPT !.limit = lim.maxRows]
                        ELSE s,
          err |-> NoError]

(***************************************************************************)
(* Access-path planning (limits.ts: applyIndex, buildIndexFilter,          *)
(* hasConditionsNotInIndex, extractComparisonConditions,                   *)
(* buildFilterExpression).                                                 *)
(***************************************************************************)
\* extractComparisonConditions: the comparisons reachable through AND only
RECURSIVE extractComparisonConditions(_, _)
extractComparisonConditions(node, tableName) ==
    IF node.type = "COMPARISON"
    THEN IF node.table = NONE \/ node.table = tableName
         THEN <<[field |-> node.field, operator |-> node.operator,
                 value |-> node.value]>>
         ELSE <<>>
    ELSE IF node.type = "AND"
    THEN extractComparisonConditions(node.left, tableName)
         \o extractComparisonConditions(node.right, tableName)
    ELSE <<>>

\* conditions.find((c) => c.field === column): its position, 0 if none
FindCondition(conditions, column) ==
    IF \E i \in 1..Len(conditions) : conditions[i].field = column
    THEN CHOOSE i \in 1..Len(conditions) :
            /\ conditions[i].field = column
            /\ \A j \in 1..(i - 1) : conditions[j].field # column
    ELSE 0

\* the loop of buildIndexFilter, accepting a range condition on every index
\* column
RECURSIVE buildIndexFilterLoop_RangeOnAnyColumn(_, _, _, _)
buildIndexFilterLoop_RangeOnAnyColumn(conditions, indexColumns, i, chain) ==
    IF i > Len(indexColumns) THEN [ok |-> TRUE, range |-> chain, err |-> NoError]
    ELSE LET column == indexColumns[i]
             k == FindCondition(conditions, column)
         IN IF k = 0
            THEN IF i = Len(indexColumns)
                 THEN buildIndexFilterLoop_RangeOnAnyColumn(conditions, indexColumns,
                                                            i + 1, chain)
                 ELSE [ok |-> FALSE, range |-> <<>>,
                       err |-> Err("IndexRequiresPrefixColumn", column)]
            ELSE IF conditions[k].operator \in {"=", ">", "<", ">=", "<="}
            THEN buildIndexFilterLoop_RangeOnAnyColumn(conditions, indexColumns, i + 1,
                                                       Append(chain, conditions[k]))
            ELSE [ok |-> FALSE, range |-> <<>>,
                  err |-> Err("IndexUnsupportedOperator", conditions[k].operator)]

\* the loop of buildIndexFilter, requiring a condition on every index
\* column, the last one included
RECURSIVE buildIndexFilterLoop_RequiringEveryColumn(_, _, _, _)
buildIndexFilterLoop_RequiringEveryColumn(conditions, indexColumns, i, chain) ==
    IF i > Len(indexColumns) THEN [ok |-> TRUE, range |-> chain, err |-> NoError]
    ELSE LET column == indexColumns[i]
             k == FindCondition(conditions, column)
         IN IF k = 0
            THEN [ok |-> FALSE, range |-> <<>>,
                  err |-> Err("IndexRequiresPrefixColumn", column)]
            ELSE IF conditions[k].operator = "="
            THEN buildIndexFilterLoop_RequiringEveryColumn(
                    conditions, indexColumns, i + 1, Append(chain, conditions[k]))
            ELSE IF conditions[k].operator \in {">", "<", ">=", "<="}
            THEN IF i # Len(indexColumns)
                 THEN [ok |-> FALSE, range |-> <<>>,
                       err |-> Err("IndexRangeOnlyOnLastColumn",
                                   JoinStrings(indexColumns, "_and_"))]
                 ELSE buildIndexFilterLoop_RequiringEveryColumn(
                         conditions, indexColumns, i + 1, Append(chain, conditions[k]))
            ELSE [ok |-> FALSE, range |-> <<>>,
                  err |-> Err("IndexUnsupportedOperator", conditions[k].operator)]

\* the loop of buildIndexFilter over the index columns, from column i:
\* chain is the calls made on the IndexFilterBuilder so far
RECURSIVE buildIndexFilterLoop(_, _, _, _)
buildIndexFilterLoop(conditions, indexColumns, i, chain) ==
    IF i > Len(indexColumns) THEN [ok |-> TRUE, range |-> chain, err |-> NoError]
    ELSE LET column == indexColumns[i]
             isLastColumn == i = Len(indexColumns)
             k == FindCondition(conditions, column)
         IN IF k = 0
            THEN IF isLastColumn
                 THEN buildIndexFilterLoop(conditions, indexColumns, i + 1, chain)
                 ELSE [ok |-> FALSE, range |-> <<>>,
                       err |-> Err("IndexRequiresPrefixColumn", column)]
            ELSE LET condition == conditions[k]
                 IN IF condition.operator = "="
                    THEN buildIndexFilterLoop(conditions, indexColumns, i + 1,
                                              Append(chain, condition))
                    ELSE IF condition.operator \in {">", "<", ">=", "<="}
                    THEN IF ~isLastColumn
                         THEN [ok |-> FALSE, range |-> <<>>,
                               err |-> Err("IndexRangeOnlyOnLastColumn",
                                           JoinStrings(indexColumns, "_and_"))]
                         ELSE buildIndexFilterLoop(conditions, indexColumns, i + 1,
                                                   Append(chain, condition))
                    ELSE [ok |-> FALSE, range |-> <<>>,
                          err |-> Err("IndexUnsupportedOperator", condition.operator)]

\* buildIndexFilter, called by withIndex with the IndexFilterBuilder
buildIndexFilter(whereClause, indexColumns, tableName) ==
    IF whereClause = NoClause
    THEN [ok |-> FALSE, range |-> <<>>,
          err |-> Err("IndexRequiresWhere", JoinStrings(indexColumns, ", "))]
    ELSE buildIndexFilterLoop(extractComparisonConditions(whereClause, tableName),
                              indexColumns, 1, <<>>)

\* applyIndex: the query with the index applied, or the Error thrown
applyIndex(query, tableName, indexName, whereClause, schema) ==
    IF tableName \notin DOMAIN schema
    THEN [ok |-> FALSE, query |-> query, err |-> Err("TableNotInSchema", tableName)]
    ELSE IF indexName \notin DOMAIN schema[tableName].indexes
    THEN [ok |-> FALSE, query |-> query, err |-> Err("IndexNotFound", indexName)]
    ELSE Let(buildIndexFilter(whereClause, schema[tableName].indexes[indexName],
                              tableName),
             LAMBDA indexFilter :
                IF ~indexFilter.ok
                THEN [ok |-> FALSE, query |-> query, err |-> indexFilter.err]
                ELSE [ok |-> TRUE,
                      query |-> withIndex(query, indexName, indexFilter.range),
                      err |-> NoError])

\* hasConditionsNotInIndex
RECURSIVE hasConditionsNotInIndex(_, _)
hasConditionsNotInIndex(node, indexedFields) ==
    IF node.type = "COMPARISON" THEN node.field \notin indexedFields
    ELSE IF node.type \in {"AND", "OR"}
    THEN hasConditionsNotInIndex(node.left, indexedFields)
         \/ hasConditionsNotInIndex(node.right, indexedFields)
    ELSE FALSE

\* buildFilterExpression: the expression handed to QueryBuilder.filter
RECURSIVE buildFilterExpression(_, _)
buildFilterExpression(where, currentTable) ==
    IF where.type = "COMPARISON"
    THEN IF where.table # NONE /\ where.table # currentTable
         THEN [type |-> "TRUE"]
         ELSE [type |-> "CMP", field |-> where.field,
               operator |-> where.operator, value |-> where.value]
    ELSE [type |-> where.type,
          left |-> buildFilterExpression(where.left, currentTable),
          right |-> buildFilterExpression(where.right, currentTable)]

(***************************************************************************)
(* Rows.  A row is a function from its keys to values; a joined row has    *)
(* the keys table.field.                                                   *)
(***************************************************************************)
Ok(val) == [ok |-> TRUE, val |-> val, err |-> NoError]
Fail(e) == [ok |-> FALSE, val |-> <<>>, err |-> e]

EmptyRow == <<>>

\* row[key] = value
SetKey(row, key, value) ==
    [k \in DOMAIN row \cup {key} |-> IF k = key THEN value ELSE row[k]]

\* `${table}.${field}`
Qualified(table, field) == table \o "." \o field

\* table ? `${table}.${field}` : field
KeyOf(table, field) == IF table # NONE THEN Qualified(table, field) ELSE field

\* the keys that contain a "."
QualifiedKeys == {Qualified(t, f) : t \in TableNames, f \in FieldNames}

\* row[key] ?? row[field]
Lookup(row, key, field) == Coalesce(Get(row, key), Get(row, field))

(***************************************************************************)
(* applyOrderBy (limits.ts).                                               *)
(***************************************************************************)
\* the place of String(v) in the collation of the values of the model
StringRank(v) ==
    IF v = NaN THEN 5
    ELSE IF v = FalseVal THEN 2
    ELSE IF v = TrueVal THEN 7
    ELSE IF v = StrVal("active") THEN 1
    ELSE IF v = StrVal("inactive") THEN 3
    ELSE IF v = StrVal("pending") THEN 6
    ELSE 0

Sign(n) == IF n < 0 THEN -1 ELSE IF n > 0 THEN 1 ELSE 0

\* the comparator of applyOrderBy, comparing non-null values in ascending
\* order whatever the direction
RECURSIVE orderComparator_IgnoringDirection(_, _, _, _)
orderComparator_IgnoringDirection(a, b, orderBy, i) ==
    IF i > Len(orderBy) THEN 0
    ELSE LET order == orderBy[i]
             key == KeyOf(order.table, order.field)
             aVal == Lookup(a, key, order.field)
             bVal == Lookup(b, key, order.field)
             isNumber(v) == ~IsString(v) /\ ~IsBoolean(v)
             comparison ==
                IF IsString(aVal) /\ IsString(bVal) THEN Sign(aVal - bVal)
                ELSE IF isNumber(aVal) /\ isNumber(bVal)
                THEN IF aVal = NaN \/ bVal = NaN THEN NaN
                     ELSE IF NumLess(aVal, bVal) THEN -1
                     ELSE IF NumLess(bVal, aVal) THEN 1 ELSE 0
                ELSE Sign(StringRank(aVal) - StringRank(bVal))
         IN IF IsNullish(aVal) /\ IsNullish(bVal)
            THEN orderComparator_IgnoringDirection(a, b, orderBy, i + 1)
            ELSE IF IsNullish(aVal) THEN (IF order.direction = "asc" THEN 1 ELSE -1)
            ELSE IF IsNullish(bVal) THEN (IF order.direction = "asc" THEN -1 ELSE 1)
            ELSE IF comparison = NaN THEN 0
            ELSE IF comparison # 0 THEN comparison
            ELSE orderComparator_IgnoringDirection(a, b, orderBy, i + 1)

\* the comparator of applyOrderBy from the i-th ORDER BY column on:
\* negative, 0 or positive
RECURSIVE orderComparator(_, _, _, _)
orderComparator(a, b, orderBy, i) ==
    IF i > Len(orderBy) THEN 0
    ELSE LET order == orderBy[i]
             key == KeyOf(order.table, order.field)
             aVal == Lookup(a, key, order.field)
             bVal == Lookup(b, key, order.field)
             aIsNull == IsNullish(aVal)
             bIsNull == IsNullish(bVal)
             isNumber(v) == ~IsString(v) /\ ~IsBoolean(v)
             comparison ==
                IF IsString(aVal) /\ IsString(bVal) THEN Sign(aVal - bVal)
                ELSE IF isNumber(aVal) /\ isNumber(bVal)
                THEN IF aVal = NaN \/ bVal = NaN THEN NaN
                     ELSE IF NumLess(aVal, bVal) THEN -1
                     ELSE IF NumLess(bVal, aVal) THEN 1 ELSE 0
                ELSE Sign(StringRank(aVal) - StringRank(bVal))
         IN IF aIsNull /\ bIsNull THEN orderComparator(a, b, orderBy, i + 1)
            ELSE IF aIsNull THEN (IF order.direction = "asc" THEN 1 ELSE -1)
            ELSE IF bIsNull THEN (IF order.direction = "asc" THEN -1 ELSE 1)
            ELSE IF comparison = NaN THEN 0
            ELSE IF comparison # 0
            THEN (IF order.direction = "asc" THEN comparison ELSE 0 - comparison)
            ELSE orderComparator(a, b, orderBy, i + 1)

\* a sort with the comparator of applyOrderBy that is not stable: a row is
\* placed before the rows it compares equal to
RECURSIVE sortRows_Unstable(_, _)
sortRows_Unstable(rows, orderBy) ==
    IF rows = <<>> THEN <<>>
    ELSE LET sorted == sortRows_Unstable(SubSeq(rows, 1, Len(rows) - 1), orderBy)
             last == rows[Len(rows)]
             k == Cardinality({i \in 1..Len(sorted) :
                                  orderComparator(sorted[i], last, orderBy, 1) < 0})
         IN SubSeq(sorted, 1, k) \o <<last>> \o SubSeq(sorted, k + 1, Len(sorted))

\* Array.prototype.sort with the comparator of applyOrderBy: stable
RECURSIVE sortRows(_, _)
sortRows(rows, orderBy) ==
    IF rows = <<>> THEN <<>>
    ELSE LET sorted == sortRows(SubSeq(rows, 1, Len(rows) - 1), orderBy)
             last == rows[Len(rows)]
             k == Cardinality({i \in 1..Len(sorted) :
                                  orderComparator(sorted[i], last, orderBy, 1) <= 0})
         IN SubSeq(sorted, 1, k) \o <<last>> \o SubSeq(sorted, k + 1, Len(sorted))

applyOrderBy(results, orderBy) ==
    IF Len(orderBy) = 0 THEN results ELSE sortRows(results, orderBy)

(***************************************************************************)
(* formatFunctionArgs and executeFunction (limits.ts).                     *)
(***************************************************************************)
formatFunctionArg(arg) ==
    CASE arg.type = "STAR" -> "*"
      [] arg.type = "TABLE_STAR" -> arg.table \o ".*"
      [] arg.type = "COLUMN" -> KeyOf(arg.table, arg.name)
      [] OTHER -> "?"

formatFunctionArgs(args) ==
    JoinStrings([i \in 1..Len(args) |-> formatFunctionArg(args[i])], ", ")

\* `${col.name}(${formatFunctionArgs(col.args)})`
FunctionKey(col) == col.name \o "(" \o formatFunctionArgs(col.args) \o ")"

\* allResults.map((r) => r[key]).filter((v) => v !== null && v !== undefined)
NonNullValues(allResults, key) ==
    LET NotNull(v) == ~IsNullish(v)
    IN SelectSeq([i \in 1..Len(allResults) |-> Get(allResults[i], key)], NotNull)

\* the sum of Number(v) over values: NaN if one of them is NaN
SumNumbers(values) ==
    IF \E i \in 1..Len(values) : ToNumber(values[i]) = NaN THEN NaN
    ELSE SeqSum([i \in 1..Len(values) |-> ToNumber(values[i])])

\* Math.min / Math.max of Number(v) over a non-empty values
ExtremeNumber(values, wantMax) ==
    IF \E i \in 1..Len(values) : ToNumber(values[i]) = NaN THEN NaN
    ELSE CHOOSE m \in {ToNumber(values[i]) : i \in 1..Len(values)} :
            \A i \in 1..Len(values) :
                IF wantMax THEN m >= ToNumber(values[i]) ELSE m <= ToNumber(values[i])

\* executeFunction: row is NoRow where the code passes null
NoRow == [type |-> "NONE"]

\* executeFunction with AVG dividing by the number of rows, the rows without
\* value included
executeFunction_AveragingOverAllRows(name, args, row, allResults) ==
    LET single == Len(args) = 1 /\ args[1].type = "COLUMN"
        key == KeyOf(args[1].table, args[1].name)
        values == NonNullValues(allResults, key)
    IN CASE name = "COUNT" ->
              IF Len(args) = 1 /\ args[1].type = "STAR" THEN Ok(Len(allResults))
              ELSE IF Len(args) >= 1 /\ args[1].type = "COLUMN"
              THEN Ok(Len(values))
              ELSE Ok(Len(allResults))
         [] name = "SUM" ->
              IF single THEN Ok(SumNumbers(values))
              ELSE Fail(Err("FunctionRequiresColumn", "SUM"))
         [] name = "AVG" ->
              IF single
              THEN Ok(IF Len(values) > 0
                      THEN IF SumNumbers(values) = NaN THEN NaN
                           ELSE Fraction(SumNumbers(values), Len(allResults))
                      ELSE NULL)
              ELSE Fail(Err("FunctionRequiresColumn", "AVG"))
         [] name = "MIN" ->
              IF single
              THEN Ok(IF Len(values) > 0 THEN ExtremeNumber(values, FALSE) ELSE NULL)
              ELSE Fail(Err("FunctionRequiresColumn", "MIN"))
         [] name = "MAX" ->
              IF single
              THEN Ok(IF Len(values) > 0 THEN ExtremeNumber(values, TRUE) ELSE NULL)
              ELSE Fail(Err("FunctionRequiresColumn", "MAX"))
         [] name = "ABS" ->
              IF row # NoRow /\ single THEN Ok(ToNumber(Get(row, key)))
              ELSE Fail(Err("FunctionRequiresColumn", "ABS"))
         [] OTHER -> Fail(Err("UnknownFunction", name))

executeFunction(name, args, row, allResults) ==
    LET single == Len(args) = 1 /\ args[1].type = "COLUMN"
        key == KeyOf(args[1].table, args[1].name)
        values == NonNullValues(allResults, key)
    IN CASE name = "COUNT" ->
              IF Len(args) = 1 /\ args[1].type = "STAR" THEN Ok(Len(allResults))
              ELSE IF Len(args) >= 1 /\ args[1].type = "COLUMN"
              THEN Ok(Len(values))
              ELSE Ok(Len(allResults))
         [] name = "SUM" ->
              IF single THEN Ok(SumNumbers(values))
              ELSE Fail(Err("FunctionRequiresColumn", "SUM"))
         [] name = "AVG" ->
              IF single
              THEN Ok(IF Len(values) > 0
                      THEN IF SumNumbers(values) = NaN THEN NaN
                           ELSE Fraction(SumNumbers(values), Len(values))
                      ELSE NULL)
              ELSE Fail(Err("FunctionRequiresColumn", "AVG"))
         [] name = "MIN" ->
              IF single
              THEN Ok(IF Len(values) > 0 THEN ExtremeNumber(values, FALSE) ELSE NULL)
              ELSE Fail(Err("FunctionRequiresColumn", "MIN"))
         [] name = "MAX" ->
              IF single
              THEN Ok(IF Len(values) > 0 THEN ExtremeNumber(values, TRUE) ELSE NULL)
              ELSE Fail(Err("FunctionRequiresColumn", "MAX"))
         [] name = "ABS" ->
              IF row # NoRow /\ single THEN Ok(ToNumber(Get(row, key)))
              ELSE Fail(Err("FunctionRequiresColumn", "ABS"))
         [] OTHER -> Fail(Err("UnknownFunction", name))

(***************************************************************************)
(* applyGroupBy and evaluateHaving (limits.ts).                            *)
(***************************************************************************)
\* the values a row is grouped on (the parts of its groupKey)
GroupKey(row, groupBy) ==
    [i \in 1..Len(groupBy) |->
        Lookup(row, KeyOf(groupBy[i].table, groupBy[i].field), groupBy[i].field)]

\* the keys of the Map groups, in insertion order
RECURSIVE GroupKeys(_, _)
GroupKeys(results, groupBy) ==
    IF results = <<>> THEN <<>>
    ELSE LET before == GroupKeys(SubSeq(results, 1, Len(results) - 1), groupBy)
             key == GroupKey(results[Len(results)], groupBy)
         IN IF key \in Range(before) THEN before ELSE Append(before, key)

\* groups.get(groupKey)
GroupRows(results, groupBy, groupKey) ==
    LET InGroup(row) == GroupKey(row, groupBy) = groupKey
    IN SelectSeq(results, InGroup)

\* resultRow after the GROUP BY columns of the group were added
RECURSIVE addGroupColumns(_, _, _, _)
addGroupColumns(resultRow, groupRows, groupBy, i) ==
    IF i > Len(groupBy) THEN resultRow
    ELSE LET key == KeyOf(groupBy[i].table, groupBy[i].field)
         IN addGroupColumns(
                SetKey(resultRow, key, Lookup(groupRows[1], key, groupBy[i].field)),
                groupRows, groupBy, i + 1)

\* statement.groupBy.some(...) for a plain column
isInGroupBy(col, groupBy) ==
    \E i \in 1..Len(groupBy) :
        /\ groupBy[i].field = col.name
        /\ groupBy[i].table = col.table

\* resultRow after the columns from the i-th on were computed for the group
RECURSIVE addAggregates(_, _, _, _, _)
addAggregates(resultRow, groupRows, columns, groupBy, i) ==
    IF i > Len(columns) THEN Ok(resultRow)
    ELSE IF columns[i].type = "FUNCTION"
    THEN Let(executeFunction(columns[i].name, columns[i].args, NoRow, groupRows),
             LAMBDA value :
                IF ~value.ok THEN value
                ELSE addAggregates(
                        IF columns[i].alias # NONE
                           /\ columns[i].alias # FunctionKey(columns[i])
                        THEN SetKey(SetKey(resultRow, columns[i].alias, value.val),
                                    FunctionKey(columns[i]), value.val)
                        ELSE SetKey(resultRow, FunctionKey(columns[i]), value.val),
                        groupRows, columns, groupBy, i + 1))
    ELSE IF columns[i].type = "COLUMN"
    THEN IF ~isInGroupBy(columns[i], groupBy)
         THEN Fail(Err("ColumnNotInGroupBy",
                       KeyOf(columns[i].table, columns[i].name)))
         ELSE addAggregates(
                 SetKey(resultRow,
                        IF columns[i].alias # NONE THEN columns[i].alias
                        ELSE columns[i].name,
                        Coalesce(Get(resultRow,
                                     KeyOf(columns[i].table, columns[i].name)),
                                 Get(groupRows[1], columns[i].name))),
                 groupRows, columns, groupBy, i + 1)
    ELSE Fail(Err("StarWithGroupBy", ""))

\* evaluateHaving
RECURSIVE evaluateHaving(_, _)
evaluateHaving(row, having) ==
    IF having.type = "COMPARISON"
    THEN LET value == Get(row, having.field)
             compareValue == having.value
         IN CASE having.operator = "=" -> value = compareValue /\ value # NaN
              [] having.operator = "!=" -> ~(value = compareValue /\ value # NaN)
              [] OTHER -> IF IsNullish(compareValue) THEN FALSE
                          ELSE JsRelational(having.operator, value, compareValue)
    ELSE IF having.type = "AND"
    THEN evaluateHaving(row, having.left) /\ evaluateHaving(row, having.right)
    ELSE evaluateHaving(row, having.left) \/ evaluateHaving(row, having.right)

\* the clean-up of applyGroupBy: cleanRow after the columns from the i-th on
RECURSIVE cleanColumns(_, _, _, _)
cleanColumns(cleanRow, row, columns, i) ==
    IF i > Len(columns) THEN cleanRow
    ELSE LET col == columns[i]
         IN IF col.type = "FUNCTION"
            THEN LET outputKey == IF col.alias # NONE THEN col.alias
                                  ELSE FunctionKey(col)
                 IN cleanColumns(SetKey(cleanRow, outputKey, Get(row, outputKey)),
                                 row, columns, i + 1)
            ELSE IF col.type = "COLUMN"
            THEN LET outputKey == IF col.alias # NONE THEN col.alias ELSE col.name
                 IN cleanColumns(
                        SetKey(cleanRow, outputKey,
                               Lookup(row, KeyOf(col.table, col.name), col.name)),
                        row, columns, i + 1)
            ELSE cleanColumns(cleanRow, row, columns, i + 1)

RECURSIVE cleanGroupColumns(_, _, _, _)
cleanGroupColumns(cleanRow, row, groupBy, i) ==
    IF i > Len(groupBy) THEN cleanRow
    ELSE LET key == KeyOf(groupBy[i].table, groupBy[i].field)
         IN cleanGroupColumns(
                IF key \in DOMAIN cleanRow THEN cleanRow
                ELSE SetKey(cleanRow, key, Get(row, key)),
                row, groupBy, i + 1)

\* the result row of each group, in the order of keys, or the first Error
\* thrown while building one
buildGroups(results, s, keys) ==
    Let([g \in 1..Len(keys) |->
            Let(GroupRows(results, s.groupBy, keys[g]), LAMBDA groupRows :
                addAggregates(addGroupColumns(EmptyRow, groupRows, s.groupBy, 1),
                              groupRows, s.columns, s.groupBy, 1))],
        LAMBDA built :
            IF \E g \in 1..Len(keys) : ~built[g].ok
            THEN built[CHOOSE g \in 1..Len(keys) :
                          ~built[g].ok /\ \A h \in 1..(g - 1) : built[h].ok]
            ELSE Ok([g \in 1..Len(keys) |-> built[g].val]))

\* groupedResults.filter((row) => evaluateHaving(row, statement.having))
filterHaving(groupedResults, s) ==
    LET Passes(row) == s.having = NoClause \/ evaluateHaving(row, s.having)
    IN SelectSeq(groupedResults, Passes)

\* the clean-up of applyGroupBy
cleanRows(filteredResults, s) ==
    [r \in 1..Len(filteredResults) |->
        cleanGroupColumns(cleanColumns(EmptyRow, filteredResults[r], s.columns, 1),
                          filteredResults[r], s.groupBy, 1)]

\* applyGroupBy: the grouped rows, or the Error thrown
applyGroupBy(results, s) ==
    IF Len(s.groupBy) = 0 THEN Ok(results)
    ELSE Let(buildGroups(results, s, GroupKeys(results, s.groupBy)),
             LAMBDA groupedResults :
                IF ~groupedResults.ok THEN groupedResults
                ELSE Ok(cleanRows(filterHaving(groupedResults.val, s), s)))

(***************************************************************************)
(* projectColumns (limits.ts).                                             *)
(***************************************************************************)
\* projected after the fields of a table.* column were copied from row
RECURSIVE copyTableStar(_, _, _, _)
copyTableStar(projected, row, table, fields) ==
    IF fields = {} THEN projected
    ELSE LET f == CHOOSE x \in fields : TRUE
             rest == copyTableStar(projected, row, table, fields \ {f})
         IN IF Qualified(table, f) \in DOMAIN row
            THEN SetKey(rest, f, row[Qualified(table, f)])
            ELSE rest

\* the body of results.map in projectColumns, from the i-th column on
RECURSIVE projectRow(_, _, _, _, _)
projectRow(projected, row, results, columns, i) ==
    IF i > Len(columns) THEN Ok(projected)
    ELSE IF columns[i].type = "TABLE_STAR"
    THEN projectRow(copyTableStar(projected, row, columns[i].table, FieldNames),
                    row, results, columns, i + 1)
    ELSE IF columns[i].type = "COLUMN"
    THEN projectRow(
            SetKey(projected,
                   IF columns[i].alias # NONE THEN columns[i].alias
                   ELSE columns[i].name,
                   Lookup(row, KeyOf(columns[i].table, columns[i].name),
                          columns[i].name)),
            row, results, columns, i + 1)
    ELSE IF columns[i].type = "FUNCTION"
    THEN Let(executeFunction(columns[i].name, columns[i].args, row, results),
             LAMBDA value :
                IF ~value.ok THEN value
                ELSE projectRow(
                        SetKey(projected,
                               IF columns[i].alias # NONE THEN columns[i].alias
                               ELSE FunctionKey(columns[i]),
                               value.val),
                        row, results, columns, i + 1))
    ELSE projectRow(projected, row, results, columns, i + 1)

\* the single row of an aggregate-only projection, from the i-th column on
RECURSIVE aggregateRow(_, _, _, _)
aggregateRow(row, results, columns, i) ==
    IF i > Len(columns) THEN Ok(row)
    ELSE Let(executeFunction(columns[i].name, columns[i].args, NoRow, results),
             LAMBDA value :
                IF ~value.ok THEN value
                ELSE aggregateRow(
                        SetKey(row,
                               IF columns[i].alias # NONE THEN columns[i].alias
                               ELSE FunctionKey(columns[i]),
                               value.val),
                        results, columns, i + 1))

\* results.map of projectColumns: the projected rows, or the first Error
\* thrown while projecting one
mapRows(results, columns) ==
    Let([r \in 1..Len(results) |->
            projectRow(EmptyRow, results[r], results, columns, 1)],
        LAMBDA mapped :
            IF \E r \in 1..Len(results) : ~mapped[r].ok
            THEN mapped[CHOOSE r \in 1..Len(results) :
                           ~mapped[r].ok /\ \A q \in 1..(r - 1) : mapped[q].ok]
            ELSE Ok([r \in 1..Len(results) |-> mapped[r].val]))

\* projectColumns without the check that rejects a SELECT list mixing
\* functions and plain columns
projectColumns_WithoutMixingCheck(results, columns) ==
    IF Len(columns) > 0 /\ \A i \in 1..Len(columns) : columns[i].type = "FUNCTION"
    THEN Let(aggregateRow(EmptyRow, results, columns, 1),
             LAMBDA row : IF row.ok THEN Ok(<<row.val>>) ELSE row)
    ELSE IF Len(columns) = 1 /\ columns[1].type = "STAR" THEN Ok(results)
    ELSE mapRows(results, columns)

\* projectColumns: the projected rows, or the Error thrown
projectColumns(results, columns) ==
    LET hasOnlyFunctions ==
            Len(columns) > 0 /\ \A i \in 1..Len(columns) : columns[i].type = "FUNCTION"
        hasAnyFunctions == \E i \in 1..Len(columns) : columns[i].type = "FUNCTION"
        hasAnyPlainColumns == \E i \in 1..Len(columns) : columns[i].type = "COLUMN"
    IN IF hasAnyFunctions /\ hasAnyPlainColumns
       THEN Fail(Err("MixingAggregatesWithColumns", ""))
       ELSE IF hasOnlyFunctions
       THEN Let(aggregateRow(EmptyRow, results, columns, 1),
                LAMBDA row : IF row.ok THEN Ok(<<row.val>>) ELSE row)
       ELSE IF Len(columns) = 1 /\ columns[1].type = "STAR" THEN Ok(results)
       ELSE mapRows(results, columns)

(***************************************************************************)
(* performJoin (limits.ts).                                                *)
(***************************************************************************)
\* a missing right row (getValue is called with null by the fast path)
NullRow == [type |-> "NULL"]

\* getValue of performJoin: the value, or the TypeError of reading a field
\* of null
getValue(leftRow, rightRow, table, field, join, fromTable) ==
    IF table = join.table
    THEN IF rightRow = NullRow THEN Fail(Err("TypeError", field))
         ELSE Ok(Get(rightRow, field))
    ELSE IF Qualified(table, field) \in DOMAIN leftRow
    THEN Ok(leftRow[Qualified(table, field)])
    ELSE IF table = fromTable /\ field \in DOMAIN leftRow THEN Ok(leftRow[field])
    ELSE Ok(UNDEF)

\* the ON conditions all hold for the pair
onMatches(leftRow, rightRow, join, fromTable) ==
    \A c \in 1..Len(join.on) :
        getValue(leftRow, rightRow, join.on[c].leftTable, join.on[c].leftField,
                 join, fromTable).val
        = getValue(leftRow, rightRow, join.on[c].rightTable, join.on[c].rightField,
                   join, fromTable).val

\* mergedRow with every key of the left row prefixed, the keys an earlier
\* join prefixed included
mergeRows_PrefixingEveryLeftKey(leftRow, rightRow, join, fromTable) ==
    LET leftKey(k) == Qualified(fromTable, k)
        leftKeys == {leftKey(k) : k \in DOMAIN leftRow}
        rightKeys == {Qualified(join.table, k) : k \in DOMAIN rightRow}
    IN [key \in leftKeys \cup rightKeys |->
          IF key \in rightKeys
          THEN rightRow[CHOOSE k \in DOMAIN rightRow : Qualified(join.table, k) = key]
          ELSE leftRow[CHOOSE k \in DOMAIN leftRow : leftKey(k) = key]]

\* mergedRow
mergeRows(leftRow, rightRow, join, fromTable) ==
    LET leftKey(k) == IF k \in QualifiedKeys THEN k ELSE Qualified(fromTable, k)
        leftKeys == {leftKey(k) : k \in DOMAIN leftRow}
        rightKeys == {Qualified(join.table, k) : k \in DOMAIN rightRow}
    IN [key \in leftKeys \cup rightKeys |->
          IF key \in rightKeys
          THEN rightRow[CHOOSE k \in DOMAIN rightRow : Qualified(join.table, k) = key]
          ELSE leftRow[CHOOSE k \in DOMAIN leftRow : leftKey(k) = key]]

\* the right rows the fast path looks up for a left key
candidateRows(rightResults, cond, leftKey) ==
    LET ByKey(rightRow) == Get(rightRow, cond.rightField) = leftKey
    IN SelectSeq(rightResults, ByKey)

\* the candidates merged with the left row where the ON conditions hold
mergeMatching(leftRow, candidates, join, fromTable) ==
    LET Matches(rightRow) == onMatches(leftRow, rightRow, join, fromTable)
        Merged(rightRow) == mergeRows(leftRow, rightRow, join, fromTable)
    IN Let(SelectSeq(candidates, Matches),
           LAMBDA matching : [m \in 1..Len(matching) |-> Merged(matching[m])])

\* the rows joined to one left row
joinLeftRow(leftRow, rightResults, join, fromTable, useSingleMap) ==
    IF useSingleMap
    THEN Let(getValue(leftRow, NullRow, join.on[1].leftTable, join.on[1].leftField,
                      join, fromTable),
             LAMBDA leftKey :
                IF ~leftKey.ok THEN leftKey
                ELSE Ok(mergeMatching(
                            leftRow,
                            candidateRows(rightResults, join.on[1], leftKey.val),
                            join, fromTable)))
    ELSE Ok(mergeMatching(leftRow, rightResults, join, fromTable))

RECURSIVE Flatten(_)
Flatten(seqs) == IF seqs = <<>> THEN <<>> ELSE Head(seqs) \o Flatten(Tail(seqs))

\* the query performJoin runs on the joined table, with the WHERE conditions
\* left out when the index hint could not be applied
rightQuery_UnfilteredOnFallback(join, globalWhereClause, schema) ==
    Let(IF join.index # NONE
        THEN applyIndex(NewQuery(join.table), join.table, join.index,
                        globalWhereClause, schema)
        ELSE [ok |-> TRUE, query |-> NewQuery(join.table), err |-> NoError],
        LAMBDA indexed :
            IF ~indexed.ok THEN NewQuery(join.table)
            ELSE IF globalWhereClause # NoClause
            THEN withFilter(indexed.query,
                            buildFilterExpression(globalWhereClause, join.table))
            ELSE indexed.query)

\* the query performJoin runs on the joined table
rightQuery(join, globalWhereClause, schema) ==
    Let(IF join.index # NONE
        THEN applyIndex(NewQuery(join.table), join.table, join.index,
                        globalWhereClause, schema)
        ELSE [ok |-> TRUE, query |-> NewQuery(join.table), err |-> NoError],
        LAMBDA indexed :
            Let(IF indexed.ok THEN indexed.query ELSE NewQuery(join.table),
                LAMBDA hinted :
                    IF globalWhereClause # NoClause
                    THEN withFilter(hinted,
                                    buildFilterExpression(globalWhereClause,
                                                          join.table))
                    ELSE hinted))

\* the loop of performJoin over the left rows
joinRows(leftResults, rightResults, join, fromTable) ==
    Let([l \in 1..Len(leftResults) |->
            joinLeftRow(leftResults[l], rightResults, join, fromTable,
                        Len(join.on) = 1 /\ join.on[1].rightTable = join.table)],
        LAMBDA parts :
            IF \E l \in 1..Len(leftResults) : ~parts[l].ok
            THEN parts[CHOOSE l \in 1..Len(leftResults) :
                          ~parts[l].ok /\ \A q \in 1..(l - 1) : parts[q].ok]
            ELSE Ok(Flatten([l \in 1..Len(leftResults) |-> parts[l].val])))

\* performJoin: the joined rows, or the Error thrown
performJoin(data, leftResults, join, fromTable, globalWhereClause, schema) ==
    joinRows(leftResults,
             collect(data, rightQuery(join, globalWhereClause, schema)),
             join, fromTable)

(***************************************************************************)
(* executeSelectWithJoin and executeSQLStatement (limits.ts).  An          *)
(* execution yields the rows returned or the Error thrown, and the calls   *)
(* it made on the DatabaseContext.                                         *)
(***************************************************************************)
Returned(rows, ctxCalls) ==
    [ok |-> TRUE, rows |-> rows, err |-> NoError, calls |-> ctxCalls]
Thrown(e, ctxCalls) ==
    [ok |-> FALSE, rows |-> <<>>, err |-> e, calls |-> ctxCalls]

QueryCall(table) == "query(" \o table \o ")"

\* the final hard cap on the result size
capRows(rows, lim) == IF Len(rows) > lim.maxRows THEN Slice(rows, lim.maxRows) ELSE rows

\* statement.limit ? rows.slice(0, statement.limit) : rows
limitRows(rows, s) == IF ~LimitIsFalsy(s) THEN Slice(rows, s.limit) ELSE rows

\* the loop over statement.joins of executeSelectWithJoin, from the j-th join
RECURSIVE performJoins(_, _, _, _, _, _)
performJoins(data, leftResults, s, schema, j, ctxCalls) ==
    IF j > Len(s.joins) THEN [ok |-> TRUE, val |-> leftResults, err |-> NoError,
                              calls |-> ctxCalls]
    ELSE Let(performJoin(data, leftResults, s.joins[j], s.from, s.where, schema),
             LAMBDA joined :
                IF ~joined.ok
                THEN [ok |-> FALSE, val |-> <<>>, err |-> joined.err,
                      calls |-> Append(ctxCalls, QueryCall(s.joins[j].table))]
                ELSE performJoins(data, joined.val, s, schema, j + 1,
                                  Append(ctxCalls, QueryCall(s.joins[j].table))))

\* the FROM query with the index hint applied, or the Error applyIndex threw
hintedQuery(s, schema) ==
    IF s.fromIndex # NONE
    THEN applyIndex(NewQuery(s.from), s.from, s.fromIndex, s.where, schema)
    ELSE [ok |-> TRUE, query |-> NewQuery(s.from), err |-> NoError]

\* steps 3 to 7 of executeSelectWithJoin, on the joined rows
finishJoin(rows, s, lim, ctxCalls) ==
    IF Len(s.groupBy) > 0
    THEN Let(applyGroupBy(rows, s), LAMBDA grouped :
            IF ~grouped.ok THEN Thrown(grouped.err, ctxCalls)
            ELSE Returned(capRows(limitRows(applyOrderBy(grouped.val, s.orderBy), s),
                                  lim),
                          ctxCalls))
    ELSE Let(projectColumns(rows, s.columns), LAMBDA projected :
            IF ~projected.ok THEN Thrown(projected.err, ctxCalls)
            ELSE Returned(capRows(limitRows(applyOrderBy(projected.val, s.orderBy), s),
                                  lim),
                          ctxCalls))

\* executeSelectWithJoin validating the JOIN tables only once the query on
\* the FROM table was started
executeSelectWithJoin_ValidatingAfterQuery(data, s, schema, lim, ctxCalls) ==
    IF \E j \in 1..Len(s.joins) : s.joins[j].table \notin DOMAIN schema
    THEN Thrown(Err("TableDoesNotExist",
                    s.joins[CHOOSE j \in 1..Len(s.joins) :
                               /\ s.joins[j].table \notin DOMAIN schema
                               /\ \A h \in 1..(j - 1) :
                                     s.joins[h].table \in DOMAIN schema].table),
                Append(ctxCalls, QueryCall(s.from)))
    ELSE Let(hintedQuery(s, schema), LAMBDA indexed :
            IF ~indexed.ok
            THEN Thrown(indexed.err, Append(ctxCalls, QueryCall(s.from)))
            ELSE Let(performJoins(
                         data,
                         collect(data,
                                 IF s.where # NoClause
                                 THEN withFilter(indexed.query,
                                                 buildFilterExpression(s.where, s.from))
                                 ELSE indexed.query),
                         s, schema, 1, Append(ctxCalls, QueryCall(s.from))),
                     LAMBDA joined :
                        IF ~joined.ok THEN Thrown(joined.err, joined.calls)
                        ELSE finishJoin(joined.val, s, lim, joined.calls)))

executeSelectWithJoin(data, s, schema, lim, ctxCalls) ==
    IF \E j \in 1..Len(s.joins) : s.joins[j].table \notin DOMAIN schema
    THEN Thrown(Err("TableDoesNotExist",
                    s.joins[CHOOSE j \in 1..Len(s.joins) :
                               /\ s.joins[j].table \notin DOMAIN schema
                               /\ \A h \in 1..(j - 1) :
                                     s.joins[h].table \in DOMAIN schema].table),
                ctxCalls)
    ELSE Let(hintedQuery(s, schema), LAMBDA indexed :
            IF ~indexed.ok
            THEN Thrown(indexed.err, Append(ctxCalls, QueryCall(s.from)))
            ELSE Let(performJoins(
                         data,
                         collect(data,
                                 IF s.where # NoClause
                                 THEN withFilter(indexed.query,
                                                 buildFilterExpression(s.where, s.from))
                                 ELSE indexed.query),
                         s, schema, 1, Append(ctxCalls, QueryCall(s.from))),
                     LAMBDA joined :
                        IF ~joined.ok THEN Thrown(joined.err, joined.calls)
                        ELSE finishJoin(joined.val, s, lim, joined.calls)))

\* canUseNativeOrdering of executeSQLStatement
canUseNativeOrdering(s, schema) ==
    /\ Len(s.orderBy) > 0
    /\ \/ s.orderBy[1].field = "_creationTime"
       \/ /\ s.fromIndex # NONE
          /\ s.fromIndex \in DOMAIN schema[s.from].indexes
          /\ Len(schema[s.from].indexes[s.fromIndex]) > 0
          /\ schema[s.from].indexes[s.fromIndex][1] = s.orderBy[1].field

\* the query executeSQLStatement builds on the FROM table, once the index
\* was applied
filteredQuery(indexedQuery, s, schema) ==
    IF s.fromIndex # NONE
    THEN IF /\ s.where # NoClause
            /\ hasConditionsNotInIndex(
                   s.where, Range(schema[s.from].indexes[s.fromIndex]))
         THEN withFilter(indexedQuery, buildFilterExpression(s.where, s.from))
         ELSE indexedQuery
    ELSE IF s.where # NoClause
    THEN withFilter(indexedQuery, buildFilterExpression(s.where, s.from))
    ELSE indexedQuery

\* the rows executeSQLStatement reads with collect or take
scanRows(data, query, s, schema) ==
    IF canUseNativeOrdering(s, schema)
    THEN IF ~LimitIsFalsy(s) /\ ~hasOnlyAggregateFunctions(s)
         THEN take(data, withOrder(query, s.orderBy[1].direction), s.limit)
         ELSE collect(data, withOrder(query, s.orderBy[1].direction))
    ELSE collect(data, query)

\* the in-memory ORDER BY and LIMIT of executeSQLStatement on the rows read
orderAndLimit(results, s, schema) ==
    IF canUseNativeOrdering(s, schema) THEN results
    ELSE IF ~LimitIsFalsy(s) /\ ~hasOnlyAggregateFunctions(s)
    THEN Slice(applyOrderBy(results, s.orderBy), s.limit)
    ELSE applyOrderBy(results, s.orderBy)

\* executeSQLStatement on the rows read, without JOIN
finishSelect(results, s, lim, schema, ctxCalls) ==
    IF Len(s.groupBy) > 0
    THEN Let(applyGroupBy(results, s), LAMBDA grouped :
            IF ~grouped.ok THEN Thrown(grouped.err, ctxCalls)
            ELSE Returned(limitRows(applyOrderBy(grouped.val, s.orderBy), s),
                          ctxCalls))
    ELSE Let(projectColumns(orderAndLimit(results, s, schema), s.columns),
             LAMBDA projected :
                IF ~projected.ok THEN Thrown(projected.err, ctxCalls)
                ELSE IF hasOnlyAggregateFunctions(s) /\ ~LimitIsFalsy(s)
                THEN Returned(capRows(Slice(projected.val, s.limit), lim), ctxCalls)
                ELSE Returned(capRows(projected.val, lim), ctxCalls))

\* executeSQLStatement creating the query on the FROM table before it reads
\* the schema
executeSQLStatement_QueryingBeforeGetSchema(data, s, lim) ==
    IF s.from \notin DOMAIN Schema
    THEN Thrown(Err("TableDoesNotExist", s.from), <<QueryCall(s.from), "getSchema">>)
    ELSE IF Len(s.joins) > 0
    THEN executeSelectWithJoin(data, s, Schema, lim, <<"getSchema">>)
    ELSE Let(hintedQuery(s, Schema), LAMBDA indexed :
            IF ~indexed.ok
            THEN Thrown(indexed.err, <<QueryCall(s.from), "getSchema">>)
            ELSE finishSelect(
                    scanRows(data, filteredQuery(indexed.query, s, Schema), s, Schema),
                    s, lim, Schema, <<QueryCall(s.from), "getSchema">>))

executeSQLStatement(data, s, lim) ==
    IF s.from \notin DOMAIN Schema
    THEN Thrown(Err("TableDoesNotExist", s.from), <<"getSchema">>)
    ELSE IF Len(s.joins) > 0
    THEN executeSelectWithJoin(data, s, Schema, lim, <<"getSchema">>)
    ELSE Let(hintedQuery(s, Schema), LAMBDA indexed :
            IF ~indexed.ok
            THEN Thrown(indexed.err, <<"getSchema", QueryCall(s.from)>>)
            ELSE finishSelect(
                    scanRows(data, filteredQuery(indexed.query, s, Schema), s, Schema),
                    s, lim, Schema, <<"getSchema", QueryCall(s.from)>>))

\* executeSQL after the lexer: parse, validate, execute
executeSQL(data, toks, lim) ==
    Let(parse(toks), LAMBDA p :
        IF ~p.ok THEN Thrown(p.err, <<>>)
        ELSE Let(validateQueryLimits(p.val, lim), LAMBDA v :
                IF ~v.ok THEN Thrown(v.err, <<>>)
                ELSE executeSQLStatement(data, v.statement, lim)))

(***************************************************************************)
(* executeSQL as a state machine: the tokens of the query are parsed, the  *)
(* statement is validated against the limits, then executed.               *)
(***************************************************************************)
TypeOK ==
    /\ pc \in {"lexing", "start", "parsed", "validated", "done",
               "lexError", "parseError", "limitError", "executeError",
               "joining", "fetching", "joined", "joinError",
               "idle", "returned", "threw"}
    /\ limits.maxRows \in Nat /\ limits.maxLimit \in Nat
    /\ limits.requireLimit \in BOOLEAN
    /\ error.kind = "none" <=> pc \notin {"lexError", "parseError", "limitError",
                                          "executeError",
                                          "joinError", "threw"}

(***************************************************************************)
(* The schema object of schema.ts and the memoized index metadata          *)
(* (getIndexRegistry of queryBuilder.ts, getSchema of adapter.ts).         *)
(***************************************************************************)
\* defineTable(...).index(...): the table with what its " indexes"() method
\* returns, the tiebreaker field at the end of the fields
TableDefinition(name, indexes) ==
    [name |-> name, hasIndexesMethod |-> TRUE, indexes |-> indexes]
IndexOn(indexDescriptor, fields) ==
    [indexDescriptor |-> indexDescriptor, fields |-> fields \o <<"_creationTime">>]

\* schema.ts: Object.entries(schema.tables), in definition order
SchemaTables ==
    <<TableDefinition("numbers", <<>>),
      TableDefinition("users", <<IndexOn("by_status", <<"status">>),
                                 IndexOn("by_status_and_age", <<"status", "age">>)>>),
      TableDefinition("posts", <<IndexOn("by_author", <<"authorId">>)>>)>>

SchemaTs == [hasTables |-> TRUE, tables |-> SchemaTables]

\* a memoized value: null, or the value
NullValue == [isNull |-> TRUE, value |-> <<>>]
Memo(value) == [isNull |-> FALSE, value |-> value]

\* the outcome of a call: the value returned or the Error thrown, and the
\* memoized value the call leaves behind
CallReturns(value, memo) == [ok |-> TRUE, val |-> value, err |-> NoError, memo |-> memo]
CallThrows(e, memo) == [ok |-> FALSE, val |-> <<>>, err |-> e, memo |-> memo]

\* the indexes of a table definition that are no system indexes, each
\* without its last field
RECURSIVE UserIndexes(_, _)
UserIndexes(indexes, acc) ==
    IF indexes = <<>> THEN acc
    ELSE UserIndexes(Tail(indexes),
                     SetKey(acc, Head(indexes).indexDescriptor,
                            SubSeq(Head(indexes).fields, 1,
                                   Len(Head(indexes).fields) - 1)))

\* the loop of getIndexRegistry over the tables, from the t-th one: the
\* registry is indexCache itself, filled in place
RECURSIVE getIndexRegistryLoop(_, _, _)
getIndexRegistryLoop(tables, t, cache) ==
    IF t > Len(tables) THEN CallReturns(cache, Memo(cache))
    ELSE IF ~tables[t].hasIndexesMethod
    THEN CallThrows(Err("NoIndexesMethod", tables[t].name), Memo(cache))
    ELSE Let(UserIndexes(tables[t].indexes, <<>>), LAMBDA tableIndexes :
            getIndexRegistryLoop(tables, t + 1,
                                 IF DOMAIN tableIndexes # {}
                                 THEN SetKey(cache, tables[t].name, tableIndexes)
                                 ELSE cache))

\* getIndexRegistry(): indexCache is set to {} before the schema is read
getIndexRegistry(cache, schemaObject) ==
    IF ~cache.isNull THEN CallReturns(cache.value, cache)
    ELSE IF ~schemaObject.hasTables
    THEN CallThrows(Err("SchemaNotFound", ""), Memo(<<>>))
    ELSE getIndexRegistryLoop(schemaObject.tables, 1, <<>>)

\* the loop of getSchema over the tables: tables is a local of the call
RECURSIVE getSchemaLoop(_, _, _)
getSchemaLoop(tables, t, info) ==
    IF t > Len(tables) THEN CallReturns(info, Memo(info))
    ELSE IF ~tables[t].hasIndexesMethod
    THEN CallThrows(Err("NoIndexesMethod", tables[t].name), NullValue)
    ELSE getSchemaLoop(tables, t + 1,
                       SetKey(info, tables[t].name,
                              [indexes |-> UserIndexes(tables[t].indexes, <<>>)]))

\* ConvexDatabaseContext.getSchema(): schemaInfo is set once the schema
\* was read
getSchema(memo, schemaObject) ==
    IF ~memo.isNull THEN CallReturns(memo.value, memo)
    ELSE IF ~schemaObject.hasTables
    THEN CallThrows(Err("SchemaNotFound", ""), NullValue)
    ELSE getSchemaLoop(schemaObject.tables, 1, <<>>)

\* the state before the Parser runs on the tokens of one query (the
\* string they were read from plays no part from there on)
NoSource == <<>>

InitFamily(queries, configs, databases) ==
    /\ sql = NoSource
    /\ tokens \in queries
    /\ limits \in configs
    /\ db \in databases
    /\ pc = "start"
    /\ statement = NoStatement
    /\ parsed = NoStatement
    /\ result = <<>>
    /\ error = NoError
    /\ calls = <<>>
    /\ queryResults = <<>>
    /\ settled = <<>>
    /\ schemaModule = SchemaTs
    /\ indexCache = NullValue
    /\ schemaInfo = NullValue
    /\ received = NullValue

\* new Parser(tokens).parse()
Parse ==
    /\ pc = "start"
    /\ LET p == parse(tokens)
       IN /\ pc' = IF p.ok THEN "parsed" ELSE "parseError"
          /\ statement' = IF p.ok THEN p.val ELSE NoStatement
          /\ parsed' = IF p.ok THEN p.val ELSE NoStatement
          /\ error' = p.err
    /\ UNCHANGED <<sql, tokens, limits, db, result, calls, joinVars, cacheVars>>

\* validateQueryLimits(statement, limits)
Validate ==
    /\ pc = "parsed"
    /\ LET v == validateQueryLimits(statement, limits)
       IN /\ pc' = IF v.ok THEN "validated" ELSE "limitError"
          /\ statement' = v.statement
          /\ error' = v.err
    /\ UNCHANGED <<sql, tokens, limits, db, parsed, result, calls, joinVars, cacheVars>>

\* executeSQLStatement(ctx, statement, limits)
Execute ==
    /\ pc = "validated"
    /\ LET r == executeSQLStatement(db, statement, limits)
       IN /\ pc' = IF r.ok THEN "done" ELSE "executeError"
          /\ result' = r.rows
          /\ error' = r.err
          /\ calls' = r.calls
    /\ UNCHANGED <<sql, tokens, limits, db, statement, parsed, joinVars, cacheVars>>

Next == Parse \/ Validate \/ Execute

(***************************************************************************)
(* The queries, limits and databases the model runs executeSQL on.         *)
(***************************************************************************)
SelectQuery(columns, from, joins, where, groupBy, having, orderBy, limit) ==
    <<W("SELECT")>> \o columns \o <<W("FROM")>> \o from \o joins \o where
        \o groupBy \o having \o orderBy \o limit \o <<EOF>>

None == <<>>
Call(fn, arg) == <<W(fn), LParen>> \o arg \o <<RParen>>
Column(name) == <<W(name)>>
Dotted(table, name) == <<W(table), Dot, W(name)>>
As(alias) == <<W("AS"), W(alias)>>
Hint(table, index) == <<W(table), At, W(index)>>
InnerJoin(table, on) == <<W("INNER"), W("JOIN")>> \o table \o <<W("ON")>> \o on
Equals(left, right) == left \o <<Op("=")>> \o right
Where(predicate) == <<W("WHERE")>> \o predicate
Having(predicate) == <<W("HAVING")>> \o predicate
Cmp(field, operator, literal) == field \o <<Op(operator), literal>>
GroupBy(fields) == <<W("GROUP"), W("BY")>> \o fields
OrderBy(field, direction) == <<W("ORDER"), W("BY")>> \o field \o direction
Limit(n) == <<W("LIMIT"), Num(NumStr(n))>>

\* no LIMIT clause, or LIMIT 0 .. MaxLimitArg + 1
LimitClauses == {None} \cup {Limit(n) : n \in 0..(MaxLimitArg + 1)}

\* the QueryLimits values
LimitConfigs ==
    {QueryLimits(maxRows, maxLimit, requireLimit, exemptTables) :
        maxRows \in 1..MaxCfg, maxLimit \in 1..MaxCfg,
        requireLimit \in BOOLEAN, exemptTables \in {{}, {"users"}}}

Databases == {Database(nUsers, nPosts) : nUsers \in 0..MaxUsers, nPosts \in 0..MaxPosts}

(***************************************************************************)
(* Spec: executeSQL on queries of every command.                           *)
(***************************************************************************)
\* the first words of the queries: the SQL commands, a keyword that is no
\* command and an identifier
CommandWords ==
    {"SELECT", "INSERT", "UPDATE", "DELETE", "DROP", "CREATE",
     "ALTER", "TRUNCATE", "REPLACE", "MERGE", "GRANT", "REVOKE", "FROM", "users"}

\* what follows the command
CommandTails ==
    {None, <<W("FROM"), W("users")>>, <<Star, W("FROM"), W("users")>>,
     <<Star, W("FROM"), W("posts")>>, <<W("status"), W("FROM"), W("users")>>,
     Call("COUNT", <<Star>>) \o <<W("FROM"), W("users")>>}

CommandQueries ==
    {<<EOF>>} \cup
    {<<W(command)>> \o tail \o limit \o <<EOF>> :
        command \in CommandWords, tail \in CommandTails,
        limit \in {None, Limit(1), Limit(MaxLimitArg)}}

\* the empty database and the fullest one
SmallDatabases == {Database(0, 0), Database(MaxUsers, MaxPosts)}

Init == InitFamily(CommandQueries, LimitConfigs, SmallDatabases)

Spec == Init /\ [][Next]_vars

\* the commands that write
WriteCommands ==
    {"INSERT", "UPDATE", "DELETE", "DROP", "CREATE", "ALTER", "TRUNCATE",
     "REPLACE", "MERGE", "GRANT", "REVOKE"}

FirstTokenIsWrite ==
    /\ Len(tokens) > 0
    /\ tokens[1].type = "KEYWORD"
    /\ tokens[1].value \in WriteCommands

\* C1: once executeSQL has worked on a query whose first token is INSERT,
\* UPDATE, DELETE, DROP, CREATE, ALTER, TRUNCATE, REPLACE, MERGE, GRANT or
\* REVOKE, the parser has thrown the write-operations-are-not-supported
\* error naming that command, no SelectStatement exists, nothing was returned
\* and no call was made on the database context.
C1_WriteRejected ==
    (FirstTokenIsWrite /\ pc # "start") =>
        /\ pc = "parseError"
        /\ error = Err("WriteNotSupported", tokens[1].value)
        /\ statement = NoStatement
        /\ parsed = NoStatement
        /\ result = <<>>
        /\ calls = <<>>

\* C1 happens: a DELETE FROM users ... was rejected by the parser
C1_Witness ==
    /\ pc = "parseError"
    /\ tokens[1] = W("DELETE")
    /\ Len(tokens) > 3
    /\ error.kind = "WriteNotSupported"

(***************************************************************************)
(* SpecLimits: executeSQL on plain, aggregate-only and GROUP BY queries,   *)
(* with and without JOIN, WHERE, ORDER BY and LIMIT, under every           *)
(* QueryLimits value.                                                      *)
(***************************************************************************)
UsersPostsJoin ==
    InnerJoin(<<W("posts")>>,
              Equals(Dotted("users", "_id"), Dotted("posts", "authorId")))

\* the selected columns with the GROUP BY clause that goes with them
LimitShapes ==
    {[columns |-> <<Star>>, groupBy |-> None],
     [columns |-> Column("status"), groupBy |-> None],
     [columns |-> Call("COUNT", <<Star>>), groupBy |-> None],
     [columns |-> Column("status") \o <<Comma>> \o Call("COUNT", <<Star>>),
      groupBy |-> GroupBy(Column("status"))]}

LimitQueries ==
    {SelectQuery(shape.columns, from, joins, where, shape.groupBy, None, orderBy,
                 limit) :
        shape \in LimitShapes,
        from \in {<<W("users")>>, <<W("posts")>>},
        joins \in {None, UsersPostsJoin},
        where \in {None, Where(Cmp(Column("status"), "=", Str("active")))},
        orderBy \in {None, OrderBy(Column("_creationTime"), <<W("DESC")>>)},
        limit \in LimitClauses}

\* the empty database, a small one and the fullest one
SomeDatabases == {Database(0, 0), Database(2, 2), Database(MaxUsers, MaxPosts)}

InitLimits == InitFamily(LimitQueries, LimitConfigs, SomeDatabases)

SpecLimits == InitLimits /\ [][Next]_vars

\* the statement as written has a LIMIT clause
HasLimit == parsed.limit # NoLimit

IsAggregateOnly ==
    /\ parsed.groupBy = <<>>
    /\ Len(parsed.columns) > 0
    /\ \A i \in 1..Len(parsed.columns) : parsed.columns[i].type = "FUNCTION"

\* case (a): a LIMIT is required and the statement has none
LimitMissing ==
    /\ limits.requireLimit
    /\ ~HasLimit
    /\ parsed.groupBy = <<>>
    /\ ~IsAggregateOnly
    /\ parsed.from \notin limits.exemptTables

\* case (b): the LIMIT of the statement exceeds maxLimit
LimitTooLarge == HasLimit /\ parsed.limit > limits.maxLimit

\* C2: validateQueryLimits throws if and only if (a) requireLimit is true and
\* the statement has no LIMIT, no GROUP BY, is not aggregate-only and its
\* FROM table is not exempt, or (b) its LIMIT exceeds maxLimit; the error of
\* case (a) names the FROM table and maxLimit; every other statement is
\* accepted.
C2_ThrowsIffLimitMissingOrTooLarge ==
    pc \in {"validated", "limitError"} =>
        /\ pc = "limitError" <=> (LimitMissing \/ LimitTooLarge)
        /\ (pc = "limitError" /\ LimitMissing) =>
              error = ErrNum("LimitRequired", parsed.from, limits.maxLimit)

\* C3: on a statement that passes validation, statement.limit is
\* limits.maxRows exactly when the statement has no LIMIT, no GROUP BY and is
\* not aggregate-only, and otherwise keeps the value written in the query; no
\* other field of the statement is changed by validation or execution.
C3_DefaultLimitOnlyWhenMissing ==
    pc \in {"validated", "done", "executeError"} =>
        /\ statement.limit =
              IF ~HasLimit /\ parsed.groupBy = <<>> /\ ~IsAggregateOnly
              THEN limits.maxRows
              ELSE parsed.limit
        /\ [statement EXCEPT !.limit = parsed.limit] = parsed

\* the rows available to the statement after WHERE and JOIN
AvailableRows ==
    IF Len(parsed.joins) > 0
    THEN performJoins(db,
                      collect(db, IF parsed.where # NoClause
                                  THEN withFilter(hintedQuery(parsed, Schema).query,
                                                  buildFilterExpression(parsed.where,
                                                                        parsed.from))
                                  ELSE hintedQuery(parsed, Schema).query),
                      parsed, Schema, 1, <<>>).val
    ELSE collect(db, filteredQuery(hintedQuery(parsed, Schema).query, parsed, Schema))

\* the LIMIT of the statement: the one written in the query, or the default
\* validation assigned
EffectiveLimit == IF HasLimit THEN parsed.limit ELSE statement.limit

\* C4: a non-aggregate, non-grouped query that executes successfully returns
\* min(LIMIT of the statement, rows available after WHERE/JOIN,
\* limits.maxRows) rows.
C4_RowCountIsMinimum ==
    (pc = "done" /\ parsed.groupBy = <<>> /\ ~IsAggregateOnly) =>
        Len(result) = Min2(EffectiveLimit, Min2(Len(AvailableRows), limits.maxRows))

\* C5: a successfully executed query of any shape never returns more than
\* limits.maxRows rows.
C5_NeverMoreThanMaxRows == pc = "done" => Len(result) <= limits.maxRows

(***************************************************************************)
(* SpecAggregate: executeSQL on aggregate-only queries, with and without   *)
(* index hint, JOIN, WHERE, ORDER BY and LIMIT.                            *)
(***************************************************************************)
AggregateColumns ==
    {Call("COUNT", <<Star>>),
     Call("COUNT", <<Star>>) \o As("n"),
     Call("COUNT", Column("age")) \o <<Comma>> \o Call("SUM", Column("age")),
     Call("AVG", Column("age")) \o As("mean") \o <<Comma>>
         \o Call("MIN", Column("age")) \o <<Comma>> \o Call("MAX", Column("age"))}

StatusIs(status) == Cmp(Column("status"), "=", Str(status))

AggregateQueries ==
    {SelectQuery(columns, from, joins, where, None, None, orderBy, limit) :
        columns \in AggregateColumns,
        from \in {<<W("users")>>, Hint("users", "by_status"),
                  Hint("users", "by_status_and_age")},
        joins \in {None, UsersPostsJoin},
        where \in {None, Where(StatusIs("active")),
                   Where(StatusIs("active") \o <<W("OR")>> \o StatusIs("inactive")),
                   Where(StatusIs("active") \o <<W("AND")>>
                             \o Cmp(Column("age"), ">", Num("20")))},
        orderBy \in {None, OrderBy(Column("_creationTime"), <<W("DESC")>>),
                     OrderBy(Column("status"), None)},
        limit \in {None, Limit(0), Limit(1), Limit(MaxLimitArg)}}

\* the smallest and the largest maxRows and maxLimit
CornerConfigs ==
    {QueryLimits(maxRows, maxLimit, requireLimit, {}) :
        maxRows \in {1, MaxCfg}, maxLimit \in {1, MaxCfg}, requireLimit \in BOOLEAN}

InitAggregate == InitFamily(AggregateQueries, CornerConfigs, SomeDatabases)

SpecAggregate == InitAggregate /\ [][Next]_vars

\* the WHERE clause holds on a row of the FROM table
RECURSIVE WhereHolds(_, _)
WhereHolds(row, where) ==
    CASE where.type = "COMPARISON" ->
            Compare(where.operator, Get(row, where.field), where.value)
      [] where.type = "AND" -> WhereHolds(row, where.left) /\ WhereHolds(row, where.right)
      [] where.type = "OR" -> WhereHolds(row, where.left) \/ WhereHolds(row, where.right)
      [] OTHER -> TRUE

\* the rows of the FROM table matching the WHERE clause of the statement
MatchingFromRows ==
    LET Holds(row) == WhereHolds(row, parsed.where)
    IN SelectSeq(db[parsed.from], Holds)

\* all the rows matching the WHERE clause, joined when the statement has JOINs
MatchingRows ==
    IF Len(parsed.joins) > 0
    THEN performJoins(db, MatchingFromRows, parsed, Schema, 1, <<>>).val
    ELSE MatchingFromRows

\* the statement as written, without its LIMIT clause
WithoutLimit == [parsed EXCEPT !.limit = NoLimit]

\* C6: an aggregate-only query that executes successfully returns exactly one
\* row, its aggregate values are those computed over all rows matching the
\* WHERE clause, and the result is the one the same query returns without
\* its LIMIT clause.
C6_AggregatesOverAllMatchingRows ==
    (pc = "done" /\ IsAggregateOnly) =>
        /\ Len(result) = 1
        /\ result = <<aggregateRow(EmptyRow, MatchingRows, parsed.columns, 1).val>>
        /\ result = executeSQLStatement(db, WithoutLimit, limits).rows

(***************************************************************************)
(* SpecGroup: executeSQL on GROUP BY queries, with and without index hint, *)
(* WHERE, HAVING, ORDER BY and LIMIT.                                      *)
(***************************************************************************)
\* the aggregate selected next to the GROUP BY column, its alias, and the
\* number HAVING compares it with
GroupShapes ==
    {[aggregate |-> Call("COUNT", <<Star>>), alias |-> None, threshold |-> Num("1")],
     [aggregate |-> Call("count", <<Star>>), alias |-> None, threshold |-> Num("1")],
     [aggregate |-> Call("COUNT", <<Star>>), alias |-> As("n"), threshold |-> Num("1")],
     [aggregate |-> Call("SUM", Column("age")), alias |-> As("n"),
      threshold |-> Num("40")]}

\* the GROUP BY queries that select the aggregate of shape
GroupQueriesOf(shape) ==
    {SelectQuery(Column("status") \o <<Comma>> \o shape.aggregate \o shape.alias,
                 from, None, where, GroupBy(Column("status")), having, orderBy, limit) :
        from \in {<<W("users")>>, Hint("users", "by_status")},
        where \in {None, Where(Cmp(Column("age"), ">", Num("20")))},
        having \in {None,
                    Having(Cmp(shape.aggregate, ">", shape.threshold)),
                    Having(Cmp(Column("n"), ">", shape.threshold)),
                    Having(Cmp(Call("COUNT", <<Star>>), ">", Num("1")))},
        orderBy \in {None, OrderBy(Column("_creationTime"), None),
                     OrderBy(Column("_creationTime"), <<W("DESC")>>),
                     OrderBy(Column("status"), None)},
        limit \in LimitClauses}

GroupQueries == UNION {GroupQueriesOf(shape) : shape \in GroupShapes}

InitGroup == InitFamily(GroupQueries, CornerConfigs, SomeDatabases)

SpecGroup == InitGroup /\ [][Next]_vars

IsGrouped == Len(parsed.groupBy) > 0

\* the groups of all the rows available to the statement that pass HAVING,
\* each with its aggregates over all the rows of the group
FullGroups == applyGroupBy(AvailableRows, parsed).val

\* C7: a GROUP BY query with LIMIT k that executes successfully returns
\* min(k, number of groups passing HAVING) rows, and every returned row is a
\* group with its aggregates computed over all the rows of the group,
\* whatever the index hint and the ORDER BY.
C7_LimitSlicesGroups ==
    (pc = "done" /\ IsGrouped /\ HasLimit) =>
        /\ Len(result) = Min2(parsed.limit, Len(FullGroups))
        /\ \A i \in 1..Len(result) : result[i] \in Range(FullGroups)

\* the position of the HAVING keyword in the query
HavingAt == CHOOSE h \in 1..Len(tokens) : tokens[h] = W("HAVING")

\* HAVING compares a function call
HavingBySignature == tokens[HavingAt + 2] = LParen

\* the function call of HAVING, as the parser reads a function column
HavingCall == parseColumn(tokens, HavingAt + 1).val

\* the selected aggregates the HAVING comparison references, by signature or
\* by alias
ReferencedColumns ==
    {i \in 1..Len(parsed.columns) :
        /\ parsed.columns[i].type = "FUNCTION"
        /\ IF HavingBySignature
           THEN /\ parsed.columns[i].name = HavingCall.name
                /\ parsed.columns[i].args = HavingCall.args
           ELSE parsed.columns[i].alias = tokens[HavingAt + 1].value}

\* the result of the statement without its HAVING clause
WithoutHaving ==
    executeSQLStatement(db, [parsed EXCEPT !.having = NoClause], limits).rows

\* C10: under GROUP BY, HAVING f(args) > n and HAVING alias > n, where the
\* aggregate f(args) is selected (under that alias), keep exactly the groups
\* whose value of the aggregate exceeds n, and the key the parser builds for
\* the call in HAVING is the key the engine builds for the function column.
C10_HavingResolvesAggregate ==
    (/\ pc = "done" /\ IsGrouped /\ ~HasLimit
     /\ parsed.having # NoClause /\ ReferencedColumns # {}) =>
        \A i \in ReferencedColumns :
            LET column == parsed.columns[i]
                key == IF column.alias # NONE THEN column.alias
                       ELSE FunctionKey(column)
                Exceeds(row) == row[key] > parsed.having.value
            IN /\ HavingBySignature => parsed.having.field = FunctionKey(column)
               /\ result = SelectSeq(WithoutHaving, Exceeds)

(***************************************************************************)
(* SpecIndex: executeSQL on queries with an index hint on the FROM table   *)
(* and a WHERE predicate over the fields of the index, under limits that   *)
(* truncate no result.                                                     *)
(***************************************************************************)
ComparisonOperators == {"=", "!=", ">", "<", ">=", "<="}

IndexPredicates ==
    {Cmp(Column("status"), operator, Str("active")) : operator \in ComparisonOperators}
    \cup {StatusIs("active") \o <<W("AND")>> \o Cmp(Column("age"), operator, Num("30")) :
            operator \in ComparisonOperators}
    \cup {StatusIs("active") \o <<W("OR")>> \o StatusIs("inactive"),
          StatusIs("active") \o <<W("AND")>> \o StatusIs("pending")}

\* more rows than a table holds
NoCap == MaxUsers + 1

IndexQueries ==
    {SelectQuery(columns, from, None, Where(predicate), None, None, None, limit) :
        columns \in {<<Star>>, Call("COUNT", <<Star>>)},
        from \in {<<W("users")>>, Hint("users", "by_status"),
                  Hint("users", "by_status_and_age")},
        predicate \in IndexPredicates,
        limit \in {None, Limit(NoCap)}}

IndexConfigs ==
    {QueryLimits(NoCap, NoCap, requireLimit, {}) : requireLimit \in BOOLEAN}

UserDatabases == {Database(nUsers, 0) : nUsers \in 0..MaxUsers}

InitIndex == InitFamily(IndexQueries, IndexConfigs, UserDatabases)

SpecIndex == InitIndex /\ [][Next]_vars

\* the fields the comparisons of a WHERE clause are on
RECURSIVE WhereFields(_)
WhereFields(where) ==
    IF where.type = "COMPARISON" THEN {where.field}
    ELSE WhereFields(where.left) \cup WhereFields(where.right)

\* the statement has an index hint and a WHERE clause over fields of the index
WhereOverIndexFields ==
    /\ parsed.fromIndex \in DOMAIN Schema[parsed.from].indexes
    /\ parsed.where # NoClause
    /\ WhereFields(parsed.where) \subseteq
           Range(Schema[parsed.from].indexes[parsed.fromIndex])

\* the execution of the statement without its index hint
WithoutHint == executeSQLStatement(db, [statement EXCEPT !.fromIndex = NONE], limits)

\* C8: a query with an index hint on the FROM table and a WHERE predicate
\* over the fields of the index, with any of the operators =, !=, >, <, >=,
\* <=, returns the same multiset of rows as the same query without the hint.
C8_IndexHintSameRows ==
    (pc \in {"done", "executeError"} /\ WhereOverIndexFields /\ WithoutHint.ok) =>
        /\ pc = "done"
        /\ SameMultiset(result, WithoutHint.rows)

(***************************************************************************)
(* SpecJoin: executeSQL on SELECT * with one INNER JOIN between users and  *)
(* posts, with and without index hint on the joined table and WHERE,       *)
(* under limits that truncate no result.                                   *)
(***************************************************************************)
\* the ON clauses: the join fields in both orders, two equalities, and
\* equalities on one table
JoinConditions ==
    {Equals(Dotted("users", "_id"), Dotted("posts", "authorId")),
     Equals(Dotted("posts", "authorId"), Dotted("users", "_id")),
     Equals(Dotted("users", "_id"), Dotted("posts", "authorId")) \o <<W("AND")>>
         \o Equals(Dotted("posts", "authorId"), Dotted("users", "_id")),
     Equals(Dotted("posts", "authorId"), Dotted("posts", "authorId")),
     Equals(Dotted("users", "_id"), Dotted("users", "_id"))}

\* the FROM table with the joined table, without and with index hint
JoinTables ==
    {[from |-> <<W("users")>>, table |-> <<W("posts")>>],
     [from |-> <<W("users")>>, table |-> Hint("posts", "by_author")],
     [from |-> <<W("posts")>>, table |-> <<W("users")>>],
     [from |-> <<W("posts")>>, table |-> Hint("users", "by_status")]}

\* more rows than a join of the two tables holds
JoinCap == (MaxUsers * MaxPosts) + 1

JoinQueries ==
    {SelectQuery(<<Star>>, tables.from, InnerJoin(tables.table, on), where, None,
                 None, None, limit) :
        tables \in JoinTables,
        on \in JoinConditions,
        where \in {None, Where(Cmp(Dotted("users", "status"), "=", Str("active")))},
        limit \in {None, Limit(JoinCap)}}

JoinConfigs ==
    {QueryLimits(JoinCap, JoinCap, requireLimit, {}) : requireLimit \in BOOLEAN}

InitJoin == InitFamily(JoinQueries, JoinConfigs, Databases)

SpecJoin == InitJoin /\ [][Next]_vars

\* the comparisons of the WHERE clause that are on the fields of table hold
\* on a row of table
RECURSIVE WhereHoldsOn(_, _, _)
WhereHoldsOn(row, where, table) ==
    CASE where.type = "COMPARISON" ->
            \/ where.table # table
            \/ Compare(where.operator, Get(row, where.field), where.value)
      [] where.type = "AND" ->
            WhereHoldsOn(row, where.left, table) /\ WhereHoldsOn(row, where.right, table)
      [] where.type = "OR" ->
            WhereHoldsOn(row, where.left, table) \/ WhereHoldsOn(row, where.right, table)
      [] OTHER -> TRUE

\* the rows of a table the WHERE clause allows
RowsOf(table) ==
    LET Holds(row) == WhereHoldsOn(row, parsed.where, table)
    IN SelectSeq(db[table], Holds)

\* table.field on a pair of a left row and a right row of the join
PairValue(leftRow, rightRow, table, field) ==
    IF table = parsed.joins[1].table THEN Get(rightRow, field) ELSE Get(leftRow, field)

\* every ON equality holds on the pair
OnHolds(leftRow, rightRow) ==
    \A c \in 1..Len(parsed.joins[1].on) :
        PairValue(leftRow, rightRow, parsed.joins[1].on[c].leftTable,
                  parsed.joins[1].on[c].leftField)
        = PairValue(leftRow, rightRow, parsed.joins[1].on[c].rightTable,
                    parsed.joins[1].on[c].rightField)

\* one merged row for each pair for which every ON equality holds
MatchingPairs ==
    LET PairsOf(leftRow) ==
            LET Matches(rightRow) == OnHolds(leftRow, rightRow)
                matching == SelectSeq(RowsOf(parsed.joins[1].table), Matches)
            IN [m \in 1..Len(matching) |->
                   mergeRows(leftRow, matching[m], parsed.joins[1], parsed.from)]
        leftRows == RowsOf(parsed.from)
    IN Flatten([l \in 1..Len(leftRows) |-> PairsOf(leftRows[l])])

\* SELECT * with one INNER JOIN and no GROUP BY
IsJoinStar ==
    /\ Len(parsed.joins) = 1
    /\ parsed.groupBy = <<>>
    /\ parsed.columns = <<StarColumn>>

\* C9: SELECT * with an INNER JOIN returns exactly one merged row for each
\* pair of a left row and a right row for which every ON equality holds, and
\* no other row.
C9_InnerJoinPairs ==
    (pc \in {"done", "executeError"} /\ IsJoinStar) =>
        /\ pc = "done"
        /\ SameMultiset(result, MatchingPairs)

(***************************************************************************)
(* SpecGroupErrors: executeSQL on GROUP BY queries whose SELECT list has   *)
(* *, table.*, grouped and ungrouped plain columns and aggregates, over    *)
(* datasets with and without matching rows.                                *)
(***************************************************************************)
GroupErrorColumns ==
    {<<Star>>,
     <<W("users"), Dot, Star>>,
     Column("name"),
     Column("status"),
     Column("status") \o <<Comma>> \o Column("age"),
     Column("status") \o <<Comma>> \o Call("COUNT", <<Star>>),
     Column("name") \o <<Comma>> \o Call("COUNT", <<Star>>),
     Call("COUNT", <<Star>>) \o <<Comma>> \o <<W("users"), Dot, Star>>}

GroupErrorQueries ==
    {SelectQuery(columns, <<W("users")>>, joins, where, GroupBy(Column("status")),
                 None, orderBy, limit) :
        columns \in GroupErrorColumns,
        joins \in {None, UsersPostsJoin},
        where \in {None, Where(StatusIs("active")), Where(StatusIs("inactive"))},
        orderBy \in {None, OrderBy(Column("_creationTime"), None),
                     OrderBy(Column("status"), <<W("DESC")>>)},
        limit \in {None, Limit(1), Limit(MaxLimitArg)}}

InitGroupErrors == InitFamily(GroupErrorQueries, CornerConfigs, SomeDatabases)

SpecGroupErrors == InitGroupErrors /\ [][Next]_vars

\* the i-th selected column is * or table.*
IsStarColumn(i) == parsed.columns[i].type \in {"STAR", "TABLE_STAR"}

\* the i-th selected column is a plain column that is no GROUP BY field
IsUngroupedColumn(i) ==
    /\ parsed.columns[i].type = "COLUMN"
    /\ \A g \in 1..Len(parsed.groupBy) :
          \/ parsed.groupBy[g].field # parsed.columns[i].name
          \/ parsed.groupBy[g].table # parsed.columns[i].table

\* the selected columns GROUP BY does not allow
OffendingColumns ==
    {i \in 1..Len(parsed.columns) : IsStarColumn(i) \/ IsUngroupedColumn(i)}

FirstOffendingColumn == CHOOSE i \in OffendingColumns : \A j \in OffendingColumns : i <= j

\* C11: a GROUP BY query that selects * or table.*, or a plain column that
\* is not one of the GROUP BY fields, is rejected whatever the dataset (also
\* when no row matches): with the not-allowed-with-GROUP-BY error for a star,
\* with the must-appear-in-GROUP-BY error naming the column for a plain
\* column.
C11_GroupByRejectsStarAndUngrouped ==
    (pc \in {"done", "executeError"} /\ IsGrouped /\ OffendingColumns # {}) =>
        /\ pc = "executeError"
        /\ IsStarColumn(FirstOffendingColumn) => error = Err("StarWithGroupBy", "")
        /\ IsUngroupedColumn(FirstOffendingColumn) =>
              error = Err("ColumnNotInGroupBy",
                          KeyOf(parsed.columns[FirstOffendingColumn].table,
                                parsed.columns[FirstOffendingColumn].name))

(***************************************************************************)
(* SpecMixing: executeSQL on queries without GROUP BY whose SELECT list    *)
(* has plain columns, functions, or both, with and without JOIN.           *)
(***************************************************************************)
MixingColumns ==
    {Column("status"),
     Call("COUNT", <<Star>>),
     Column("status") \o <<Comma>> \o Call("COUNT", <<Star>>),
     Call("COUNT", <<Star>>) \o <<Comma>> \o Column("status"),
     Dotted("users", "name") \o <<Comma>> \o Call("MAX", Column("age")),
     Column("status") \o As("s") \o <<Comma>> \o Call("SUM", Column("age")) \o As("t"),
     <<W("users"), Dot, Star>> \o <<Comma>> \o Call("COUNT", <<Star>>)}

\* FROM with the WHERE clause that goes with it (an index hint needs one)
MixingSources ==
    {[from |-> <<W("users")>>, where |-> None],
     [from |-> <<W("users")>>, where |-> Where(StatusIs("active"))],
     [from |-> <<W("users")>>, where |-> Where(StatusIs("inactive"))],
     [from |-> Hint("users", "by_status"), where |-> Where(StatusIs("active"))]}

MixingQueries ==
    {SelectQuery(columns, source.from, joins, source.where, None, None, orderBy, limit) :
        columns \in MixingColumns,
        source \in MixingSources,
        joins \in {None, UsersPostsJoin},
        orderBy \in {None, OrderBy(Column("status"), None)},
        limit \in {None, Limit(1), Limit(MaxLimitArg)}}

InitMixing == InitFamily(MixingQueries, CornerConfigs, SomeDatabases)

SpecMixing == InitMixing /\ [][Next]_vars

\* the SELECT list has a function column and a plain column
MixesFunctionsAndColumns ==
    /\ \E i \in 1..Len(parsed.columns) : parsed.columns[i].type = "FUNCTION"
    /\ \E i \in 1..Len(parsed.columns) : parsed.columns[i].type = "COLUMN"

\* C12: without GROUP BY, a valid query whose SELECT list has both a function
\* column and a plain column never returns rows: its execution throws the
\* mixing-requires-GROUP-BY error, without JOIN and with one, whatever the
\* data.
C12_MixingRejected ==
    (pc \in {"done", "executeError"} /\ ~IsGrouped /\ MixesFunctionsAndColumns) =>
        /\ pc = "executeError"
        /\ error = Err("MixingAggregatesWithColumns", "")
        /\ result = <<>>

\* C12 happens: a mixing query with a JOIN was rejected on empty tables
C12_Witness ==
    /\ pc = "executeError"
    /\ error.kind = "MixingAggregatesWithColumns"
    /\ MixesFunctionsAndColumns
    /\ Len(parsed.joins) = 1
    /\ db.users = <<>>

(***************************************************************************)
(* SpecTables: executeSQL on queries whose FROM table and JOIN tables are  *)
(* or are not tables of the schema.                                        *)
(***************************************************************************)
JoinOn(table, field) ==
    InnerJoin(<<W(table)>>, Equals(Dotted("users", "_id"), Dotted(table, field)))

\* no JOIN; a JOIN on a table of the schema; on an unknown table; two JOINs,
\* the unknown table last or first; two unknown tables
TableJoins ==
    {None,
     JoinOn("posts", "authorId"),
     JoinOn("comments", "authorId"),
     JoinOn("posts", "authorId") \o JoinOn("comments", "authorId"),
     JoinOn("comments", "authorId") \o JoinOn("posts", "authorId"),
     JoinOn("likes", "userId") \o JoinOn("comments", "authorId")}

TableQueries ==
    {SelectQuery(columns, from, joins, where, None, None, None, limit) :
        columns \in {<<Star>>, Column("status"), Call("COUNT", <<Star>>)},
        from \in {<<W("users")>>, <<W("posts")>>, <<W("orders")>>,
                  Hint("users", "by_status"), Hint("orders", "by_status")},
        joins \in TableJoins,
        where \in {None, Where(StatusIs("active"))},
        limit \in {None, Limit(1)}}

InitTables == InitFamily(TableQueries, CornerConfigs, SomeDatabases)

SpecTables == InitTables /\ [][Next]_vars

\* the tables the statement names, FROM first, that the schema does not have
UnknownTables ==
    LET named == <<parsed.from>> \o [j \in 1..Len(parsed.joins) |-> parsed.joins[j].table]
        Unknown(table) == table \notin TableNames
    IN SelectSeq(named, Unknown)

\* C13: when the FROM table or the table of a JOIN is not a table of the
\* schema, execution throws Table '<name>' does not exist naming the first
\* such table (FROM before the JOINs), and has started no query on the
\* database context: the schema was read and nothing else.
C13_UnknownTableFailsBeforeQuery ==
    (pc \in {"done", "executeError"} /\ UnknownTables # <<>>) =>
        /\ pc = "executeError"
        /\ error = Err("TableDoesNotExist", UnknownTables[1])
        /\ calls = <<"getSchema">>
        /\ result = <<>>

\* C13 happens: the second JOIN of a query on non-empty tables names an
\* unknown table
C13_Witness ==
    /\ pc = "executeError"
    /\ error = Err("TableDoesNotExist", "comments")
    /\ Len(parsed.joins) = 2
    /\ parsed.joins[1].table = "posts"
    /\ db.users # <<>>

(***************************************************************************)
(* SpecPlan: executeSQL on queries with an index hint on the FROM table,   *)
(* with no WHERE clause or a WHERE predicate built from AND, OR and        *)
(* comparisons on the index columns and on a field outside the index,      *)
(* under limits that truncate no result.                                   *)
(***************************************************************************)
AgeIs(operator) == Cmp(Column("age"), operator, Num("30"))

IdAfterFirst == Cmp(Column("_id"), ">", Num("1"))

And(left, right) == left \o <<W("AND")>> \o right

Or(left, right) == left \o <<W("OR")>> \o right

PlanPredicates ==
    {Cmp(Column("status"), operator, Str("active")) : operator \in ComparisonOperators}
    \cup {AgeIs(operator) : operator \in ComparisonOperators}
    \cup {And(Cmp(Column("status"), first, Str("active")), AgeIs(second)) :
            first \in ComparisonOperators, second \in ComparisonOperators}
    \cup {And(AgeIs(operator), StatusIs("active")) : operator \in ComparisonOperators}
    \cup {IdAfterFirst,
          And(StatusIs("active"), IdAfterFirst),
          And(AgeIs(">"), IdAfterFirst),
          And(StatusIs("active"), And(AgeIs(">"), IdAfterFirst)),
          Or(StatusIs("active"), StatusIs("inactive")),
          Or(StatusIs("active"), AgeIs(">")),
          Or(StatusIs("pending"), IdAfterFirst),
          Or(IdAfterFirst, StatusIs("pending")),
          Or(And(StatusIs("active"), AgeIs(">")), IdAfterFirst),
          And(StatusIs("active"), Cmp(Column("status"), ">", Str("active"))),
          And(Cmp(Column("status"), ">=", Str("inactive")), StatusIs("pending")),
          And(StatusIs("active"), And(AgeIs(">"), Cmp(Column("age"), "<", Num("40"))))}

PlanQueries ==
    {SelectQuery(<<Star>>, from, None, where, None, None, None, limit) :
        from \in {Hint("users", "by_status"), Hint("users", "by_status_and_age")},
        where \in {None} \cup {Where(predicate) : predicate \in PlanPredicates},
        limit \in {None, Limit(NoCap)}}

InitPlan == InitFamily(PlanQueries, IndexConfigs, UserDatabases)

SpecPlan == InitPlan /\ [][Next]_vars

\* the statement has an index hint on its FROM table, naming an index
HasIndexHint ==
    /\ parsed.from \in TableNames
    /\ parsed.fromIndex \in DOMAIN Schema[parsed.from].indexes

\* the columns of the hinted index, in order
HintedColumns == Schema[parsed.from].indexes[parsed.fromIndex]

\* the comparisons of a WHERE clause that index planning considers: those
\* joined by AND only
RECURSIVE ConsideredConditions(_)
ConsideredConditions(where) ==
    IF where = NoClause THEN {}
    ELSE IF where.type = "COMPARISON" THEN {where}
    ELSE IF where.type = "AND"
    THEN ConsideredConditions(where.left) \cup ConsideredConditions(where.right)
    ELSE {}

ConditionsOn(column) == {c \in ConsideredConditions(parsed.where) : c.field = column}

\* the WHERE clause has at most one considered condition on each index column
OneConditionPerColumn ==
    \A column \in Range(HintedColumns) : Cardinality(ConditionsOn(column)) <= 1

OperatorOn(column) == (CHOOSE c \in ConditionsOn(column) : TRUE).operator

RangeOperators == {">", "<", ">=", "<="}

\* the i-th index column is not the last one and has no condition, or a
\* range condition
PrefixColumnRejected(i) ==
    /\ i < Len(HintedColumns)
    /\ \/ ConditionsOn(HintedColumns[i]) = {}
       \/ OperatorOn(HintedColumns[i]) \in RangeOperators

\* the i-th index column has an = condition, or is the last one and has a
\* range condition or none
ColumnAccepted(i) ==
    IF ConditionsOn(HintedColumns[i]) = {} THEN i = Len(HintedColumns)
    ELSE \/ OperatorOn(HintedColumns[i]) = "="
         \/ i = Len(HintedColumns) /\ OperatorOn(HintedColumns[i]) \in RangeOperators

C16_HintedRowsSatisfyWhere ==
    (pc = "done" /\ HasIndexHint /\ parsed.where # NoClause) =>
        \A r \in 1..Len(result) : WhereHolds(result[r], parsed.where)

\* the last column of the hinted index
LastHintedColumn == HintedColumns[Len(HintedColumns)]

\* the WHERE clause is present, has one accepted condition on every index
\* column but the last, and no considered condition on the last one
LastColumnUnconstrained ==
    /\ parsed.where # NoClause
    /\ OneConditionPerColumn
    /\ ConditionsOn(LastHintedColumn) = {}
    /\ \A i \in 1..(Len(HintedColumns) - 1) : ColumnAccepted(i)

SparseUsers ==
    <<[_id |-> 21, _creationTime |-> 21, status |-> StrVal("pending")],
      [_id |-> 22, _creationTime |-> 22, age |-> 35, status |-> StrVal("active")],
      [_id |-> 23, _creationTime |-> 23, age |-> NULL, status |-> StrVal("active")],
      [_id |-> 24, _creationTime |-> 24, age |-> 17, status |-> StrVal("pending")],
      [_id |-> 25, _creationTime |-> 25, age |-> 35, status |-> StrVal("inactive")]>>

SparseDatabase(nUsers) ==
    [users |-> SubSeq(SparseUsers, 1, Min2(nUsers, Len(SparseUsers))), posts |-> <<>>]

OrderDatabases ==
    {Database(nUsers, MaxPosts) : nUsers \in 0..MaxUsers}
    \cup {SparseDatabase(nUsers) : nUsers \in 2..(MaxUsers + 1)}

Asc == <<W("ASC")>>

Desc == <<W("DESC")>>

ThenBy(field, direction) == <<Comma>> \o field \o direction

OrderClauses ==
    {OrderBy(Column("age"), None), OrderBy(Column("age"), Desc),
     OrderBy(Column("status"), Asc), OrderBy(Column("status"), Desc),
     OrderBy(Column("_creationTime"), None), OrderBy(Column("_creationTime"), Desc),
     OrderBy(Column("status"), None) \o ThenBy(Column("age"), Desc),
     OrderBy(Column("status"), Desc) \o ThenBy(Column("age"), None),
     OrderBy(Column("age"), Desc) \o ThenBy(Column("status"), Desc),
     OrderBy(Dotted("users", "age"), None), OrderBy(Dotted("users", "age"), Desc)}

\* FROM with the WHERE clause that goes with it
OrderSources ==
    {[from |-> <<W("users")>>, where |-> None],
     [from |-> Hint("users", "by_status"),
      where |-> Where(Cmp(Column("status"), ">=", Str("active")))]}

OrderQueries ==
    {SelectQuery(columns, source.from, joins, source.where, None, None, orderBy, limit) :
        columns \in {<<Star>>, Column("status"), Column("age"), Dotted("users", "_id")},
        source \in OrderSources,
        joins \in {None, UsersPostsJoin},
        orderBy \in OrderClauses,
        limit \in {None, Limit(2), Limit(NoCap)}}

InitOrder == InitFamily(OrderQueries, IndexConfigs, OrderDatabases)

SpecOrder == InitOrder /\ [][Next]_vars

\* the value of an ORDER BY key on a row
OrderValue(row, order) == Lookup(row, KeyOf(order.table, order.field), order.field)

\* the rows whose value on the first ORDER BY key is not null or missing
NonNullRows(rows) ==
    LET HasValue(row) == ~IsNullish(OrderValue(row, parsed.orderBy[1]))
    IN SelectSeq(rows, HasValue)

\* the values of the rows on the first ORDER BY key
OrderValues(rows) == [r \in 1..Len(rows) |-> OrderValue(rows[r], parsed.orderBy[1])]

\* the rows the same statement returns with the direction of its ORDER BY
\* key flipped
OppositeDirection ==
    executeSQLStatement(
        db,
        [statement EXCEPT !.orderBy =
            <<[@[1] EXCEPT !.direction = IF @ = "asc" THEN "desc" ELSE "asc"]>>],
        limits).rows

\* the rows with a null or missing value come last under ASC, first under DESC
NullsPlaced ==
    \A i \in 1..Len(result) : \A j \in (i + 1)..Len(result) :
        IF parsed.orderBy[1].direction = "asc"
        THEN IsNullish(OrderValue(result[i], parsed.orderBy[1]))
                => IsNullish(OrderValue(result[j], parsed.orderBy[1]))
        ELSE IsNullish(OrderValue(result[j], parsed.orderBy[1]))
                => IsNullish(OrderValue(result[i], parsed.orderBy[1]))

\* a query with one ORDER BY key and no LIMIT clause was executed
OrderedByOneKey == pc = "done" /\ Len(parsed.orderBy) = 1 /\ ~HasLimit

\* C15: for the same dataset and the same field, the sequence of rows
\* produced by ORDER BY field DESC is exactly the reverse of the sequence
\* produced by ORDER BY field ASC, apart from the rows with nulls, which come
\* last ascending and first descending.
C15_DescIsReverseOfAsc ==
    OrderedByOneKey =>
        /\ NonNullRows(result) = Reverse(NonNullRows(OppositeDirection))
        /\ NullsPlaced

\* C15, amended: the sequence of the values of the field under ORDER BY
\* field DESC is the reverse of the sequence of its values under ORDER BY
\* field ASC, and the sequence of rows is exactly reversed when no two rows
\* have the same value of the field; rows with nulls come last ascending and
\* first descending.
C15_DescReversesValues ==
    OrderedByOneKey =>
        /\ OrderValues(NonNullRows(result))
              = Reverse(OrderValues(NonNullRows(OppositeDirection)))
        /\ (\A i, j \in 1..Len(result) :
               i # j => \/ IsNullish(OrderValue(result[i], parsed.orderBy[1]))
                        \/ OrderValue(result[i], parsed.orderBy[1])
                              # OrderValue(result[j], parsed.orderBy[1]))
              => NonNullRows(result) = Reverse(NonNullRows(OppositeDirection))
        /\ NullsPlaced

\* C15 happens: ORDER BY age DESC sorted in memory rows with distinct ages
\* and rows without age
C15_Witness ==
    /\ OrderedByOneKey
    /\ parsed.orderBy[1] = [table |-> NONE, field |-> "age", direction |-> "desc"]
    /\ Len(NonNullRows(result)) >= 2
    /\ Len(result) >= Len(NonNullRows(result)) + 2
    /\ OrderValues(NonNullRows(result)) # OrderValues(NonNullRows(OppositeDirection))

\* rows a and b tie on the k-th ORDER BY key: both null or missing, or equal
TieOn(a, b, k) ==
    LET x == OrderValue(a, parsed.orderBy[k])
        y == OrderValue(b, parsed.orderBy[k])
    IN (IsNullish(x) /\ IsNullish(y)) \/ (~IsNullish(x) /\ ~IsNullish(y) /\ x = y)

\* the k-th ORDER BY key puts row a before row b: nulls last and values
\* ascending under ASC, nulls first and values descending under DESC
BeforeOn(a, b, k) ==
    LET x == OrderValue(a, parsed.orderBy[k])
        y == OrderValue(b, parsed.orderBy[k])
    IN IF parsed.orderBy[k].direction = "asc"
       THEN (~IsNullish(x) /\ IsNullish(y)) \/ (~IsNullish(x) /\ ~IsNullish(y) /\ x < y)
       ELSE (IsNullish(x) /\ ~IsNullish(y)) \/ (~IsNullish(x) /\ ~IsNullish(y) /\ x > y)

\* the ORDER BY keys put row a before row b: the first key they do not tie on
\* does
OrderedBefore(a, b) ==
    \E k \in 1..Len(parsed.orderBy) :
        /\ BeforeOn(a, b, k)
        /\ \A h \in 1..(k - 1) : TieOn(a, b, h)

TieOnAllKeys(a, b) == \A k \in 1..Len(parsed.orderBy) : TieOn(a, b, k)

\* the place of a row in a sequence of distinct rows
PlaceIn(rows, row) == CHOOSE i \in 1..Len(rows) : rows[i] = row

\* SELECT * with ORDER BY and no LIMIT was executed with the in-memory sort:
\* the result is what applyOrderBy returned for the rows read
SortedInMemory ==
    /\ pc = "done"
    /\ parsed.columns = <<StarColumn>>
    /\ Len(parsed.orderBy) > 0
    /\ ~HasLimit
    /\ Len(parsed.joins) > 0 \/ ~canUseNativeOrdering(parsed, Schema)

IsSortedTop(R) ==
    /\ \A i \in 1..Len(R) : \A j \in (i + 1)..Len(R) :
          R[i] # R[j] /\ ~OrderedBefore(R[j], R[i])
    /\ \A row \in Range(AvailableRows) \ Range(R) :
          \A i \in 1..Len(R) : ~OrderedBefore(row, R[i])

\* a non-aggregate, non-grouped query with ORDER BY and LIMIT k > 0 was
\* executed
OrderedAndLimited ==
    /\ pc = "done"
    /\ ~IsGrouped
    /\ ~IsAggregateOnly
    /\ Len(parsed.orderBy) > 0
    /\ HasLimit
    /\ parsed.limit > 0

\* C19: a non-aggregate, non-grouped query with ORDER BY and LIMIT k returns
\* the selected columns of the first k rows of all the rows matching the
\* statement, sorted by the ORDER BY keys (all of them when fewer than k
\* match), whether or not the keys are among the selected columns.
C19_OrderByBeforeLimit ==
    OrderedAndLimited =>
        \E R \in [1..Min2(parsed.limit, Len(AvailableRows)) -> Range(AvailableRows)] :
            /\ IsSortedTop(R)
            /\ projectColumns(R, parsed.columns).val = result

(***************************************************************************)
(* SpecMerge: executeSQL on SELECT * over one JOIN and over a sequence of  *)
(* two JOINs, on either table and on the same table twice.                 *)
(***************************************************************************)
UsersWritePosts == Equals(Dotted("users", "_id"), Dotted("posts", "authorId"))

\* the JOIN clauses that follow the FROM table
MergeJoins ==
    LET Tables == {<<W("users")>>, <<W("posts")>>, Hint("posts", "by_author")}
        Conditions == {UsersWritePosts,
                       Equals(Dotted("posts", "authorId"), Dotted("users", "_id")),
                       Equals(Dotted("users", "_id"), Dotted("users", "_id"))}
        One == {InnerJoin(table, on) : table \in Tables, on \in Conditions}
        Two == {InnerJoin(table, UsersWritePosts) \o InnerJoin(next, on) :
                    table \in {<<W("users")>>, <<W("posts")>>},
                    next \in Tables, on \in Conditions}
    IN One \cup Two

MergeQueries ==
    {SelectQuery(<<Star>>, <<W(from)>>, joins, where, None, None, None, limit) :
        from \in {"users", "posts"},
        joins \in MergeJoins,
        where \in {None, Where(Cmp(Dotted("users", "status"), "=", Str("active")))},
        limit \in {None, Limit(JoinCap)}}

InitMerge == InitFamily(MergeQueries, JoinConfigs, SomeDatabases)

SpecMerge == InitMerge /\ [][Next]_vars

\* the tables of the statement: the FROM table and the joined tables
StatementTables == {parsed.from} \cup {parsed.joins[j].table : j \in 1..Len(parsed.joins)}

\* the field names of the documents of a table
DocumentFields(table) == UNION {DOMAIN db[table][d] : d \in 1..Len(db[table])}

\* key is a field of a document of the table with the table's name as its
\* one prefix, and holds the field of one of the documents
IsQualifiedOnce(row, key) ==
    \E table \in StatementTables :
        \E d \in 1..Len(db[table]) :
            \E field \in DOMAIN db[table][d] :
                /\ key = Qualified(table, field)
                /\ row[key] = db[table][d][field]

\* C20: after a sequence of JOINs every key of every merged row is
\* table-qualified with exactly one prefix: the keys of the FROM table's
\* document carry the FROM table's prefix, the keys of a joined table's
\* document carry the joined table's prefix, and no key that an earlier join
\* prefixed is prefixed again.
C20_MergedKeysQualifiedOnce ==
    (pc = "done" /\ Len(parsed.joins) > 0 /\ parsed.columns = <<StarColumn>>) =>
        \A r \in 1..Len(result) :
            /\ \A key \in DOMAIN result[r] : IsQualifiedOnce(result[r], key)
            /\ \A table \in StatementTables :
                  \E d \in 1..Len(db[table]) :
                      \A field \in DOMAIN db[table][d] :
                          Qualified(table, field) \in DOMAIN result[r]

\* rows merged by a sequence of two JOINs were returned
C20_Witness ==
    /\ pc = "done"
    /\ Len(parsed.joins) = 2
    /\ parsed.columns = <<StarColumn>>
    /\ Len(result) > 1
    /\ StatementTables = {"users", "posts"}

(***************************************************************************)
(* SpecFallback: executeSQL on SELECT * over a JOIN whose table carries    *)
(* an index hint that can or cannot be applied, the FROM table with and    *)
(* without a hint of its own.                                              *)
(***************************************************************************)
\* the joined table as written: existing and missing indexes
FallbackJoinTables ==
    {<<W("posts")>>, Hint("posts", "by_author"), Hint("posts", "by_status"),
     <<W("users")>>, Hint("users", "by_status"), Hint("users", "by_status_and_age"),
     Hint("users", "by_author")}

\* WHERE predicates: none, and comparisons the indexes accept or reject
FallbackPredicates ==
    {None,
     Where(Cmp(Dotted("users", "status"), "=", Str("active"))),
     Where(Cmp(Dotted("users", "age"), ">", Num("30"))),
     Where(And(Cmp(Dotted("users", "status"), ">", Str("active")),
               Cmp(Dotted("users", "age"), "=", Num("35")))),
     Where(Cmp(Dotted("users", "status"), "!=", Str("active"))),
     Where(Cmp(Dotted("posts", "authorId"), "=", Num("1"))),
     Where(Or(Cmp(Dotted("users", "status"), "=", Str("active")),
              Cmp(Dotted("users", "age"), "<", Num("30"))))}

FallbackQueries ==
    {SelectQuery(<<Star>>, from, InnerJoin(table, on), where, None, None, None, None) :
        from \in {<<W("users")>>, <<W("posts")>>, Hint("users", "by_status"),
                  Hint("posts", "by_status")},
        table \in FallbackJoinTables,
        on \in {UsersWritePosts,
                Equals(Dotted("posts", "authorId"), Dotted("users", "_id"))},
        where \in FallbackPredicates}

InitFallback == InitFamily(FallbackQueries, JoinConfigs, SomeDatabases)

SpecFallback == InitFallback /\ [][Next]_vars

\* executeSQLStatement was called on the statement
Executed == pc \in {"done", "executeError"}

\* applying the index hint of the j-th JOIN throws
JoinHintFails(j) ==
    /\ parsed.joins[j].index # NONE
    /\ ~applyIndex(NewQuery(parsed.joins[j].table), parsed.joins[j].table,
                   parsed.joins[j].index, parsed.where, Schema).ok

\* the statement with the index hints of its JOINs removed
WithoutJoinHints ==
    [parsed EXCEPT !.joins = [j \in 1..Len(parsed.joins) |->
                                 [parsed.joins[j] EXCEPT !.index = NONE]]]

\* the execution of the statement written without the JOIN hints
UnhintedJoin == executeSQLStatement(db, WithoutJoinHints, limits)

\* C21: when the index hint of a JOIN cannot be applied (the index does not
\* exist on the joined table, or the WHERE clause does not supply the
\* conditions the index requires), the query does not fail and returns the
\* rows of the same query written without that hint; an index hint on the
\* FROM table that cannot be applied is not swallowed and fails the query.
C21_JoinHintFallsBack ==
    /\ (/\ Executed
        /\ Len(parsed.joins) > 0
        /\ \E j \in 1..Len(parsed.joins) : JoinHintFails(j)
        /\ UnhintedJoin.ok) =>
            /\ pc = "done"
            /\ result = UnhintedJoin.rows
    /\ (/\ Executed
        /\ parsed.from \in DOMAIN Schema
        /\ \A j \in 1..Len(parsed.joins) : parsed.joins[j].table \in DOMAIN Schema
        /\ ~hintedQuery(parsed, Schema).ok) =>
            /\ pc = "executeError"
            /\ error = hintedQuery(parsed, Schema).err

\* a JOIN on users through the two-column index without condition on its
\* first column returned the rows that satisfy the WHERE clause
C21_Witness ==
    /\ pc = "done"
    /\ Len(parsed.joins) = 1
    /\ JoinHintFails(1)
    /\ parsed.joins[1].index = "by_status_and_age"
    /\ parsed.where # NoClause
    /\ Len(result) > 0
    /\ Len(result) < Len(db.posts)

(***************************************************************************)
(* The JOIN of queryBuilder.ts: performJoin (collect, then a hash map on   *)
(* the right join field) and performOptimizedJoin (one fetch per distinct  *)
(* left join value, awaited with Promise.all).  A JoinClause of            *)
(* queryBuilder.ts holds one ON condition.                                 *)
(***************************************************************************)
\* a slot of Promise.all that is not filled yet
NoResult == [pending |-> TRUE]

\* extractJoinValues: the distinct values that are neither undefined nor
\* null, in the order of their first occurrence
RECURSIVE extractJoinValues(_, _)
extractJoinValues(leftResults, leftField) ==
    IF leftResults = <<>> THEN <<>>
    ELSE Let(extractJoinValues(SubSeq(leftResults, 1, Len(leftResults) - 1), leftField),
             LAMBDA values :
                Let(Get(leftResults[Len(leftResults)], leftField), LAMBDA value :
                    IF value # UNDEF /\ value # NULL /\ value \notin Range(values)
                    THEN Append(values, value)
                    ELSE values))

\* applyIndexForJoinValue: the query narrowed to one join value, or the
\* TypeError of reading the registry entry of a table or index it lacks
applyIndexForJoinValue(query, tableName, indexName, joinField, joinValue, indexRegistry) ==
    IF tableName \notin DOMAIN indexRegistry
    THEN [ok |-> FALSE, query |-> query, err |-> Err("TypeError", tableName)]
    ELSE IF indexName \notin DOMAIN indexRegistry[tableName]
    THEN [ok |-> FALSE, query |-> query, err |-> Err("TypeError", indexName)]
    ELSE Let(indexRegistry[tableName][indexName], LAMBDA indexColumns :
            [ok |-> TRUE, err |-> NoError,
             query |->
                IF Len(indexColumns) > 0 /\ indexColumns[1] = joinField
                THEN withIndex(query, indexName,
                               <<[field |-> joinField, operator |-> "=",
                                  value |-> joinValue]>>)
                ELSE withFilter(query, [type |-> "CMP", field |-> joinField,
                                        operator |-> "=", value |-> joinValue])])

\* the query one callback of queryPromises builds for its join value
joinValueQuery(join, joinValue, globalWhereClause, indexRegistry) ==
    Let(IF join.index # NONE
        THEN applyIndexForJoinValue(NewQuery(join.table), join.table, join.index,
                                    join.on.rightField, joinValue, indexRegistry)
        ELSE [ok |-> TRUE, query |-> NewQuery(join.table), err |-> NoError],
        LAMBDA indexed :
            IF ~indexed.ok \/ globalWhereClause = NoClause THEN indexed
            ELSE [indexed EXCEPT !.query =
                     withFilter(@, buildFilterExpression(globalWhereClause,
                                                         join.table))])

\* mergedRow of queryBuilder.ts: every left key gets the FROM table's prefix
mergedRow(leftRow, rightRow, join, fromTable) ==
    LET leftKeys == {Qualified(fromTable, k) : k \in DOMAIN leftRow}
        rightKeys == {Qualified(join.table, k) : k \in DOMAIN rightRow}
    IN [key \in leftKeys \cup rightKeys |->
          IF key \in rightKeys
          THEN rightRow[CHOOSE k \in DOMAIN rightRow : Qualified(join.table, k) = key]
          ELSE leftRow[CHOOSE k \in DOMAIN leftRow : Qualified(fromTable, k) = key]]

\* the left rows with the rows of rightResults, merged pair by pair
mergePairs(lefts, rightResults, join, fromTable) ==
    Flatten([l \in 1..Len(lefts) |->
                [r \in 1..Len(rightResults) |->
                    mergedRow(lefts[l], rightResults[r], join, fromTable)]])

\* the rows performOptimizedJoin builds from the slots of order, each slot
\* joined to the left rows that hold its join value
joinSlots(slots, order, leftResults, join, fromTable) ==
    Flatten([o \in 1..Len(order) |->
                LET ByValue(leftRow) ==
                        Get(leftRow, join.on.leftField) = slots[order[o]].joinValue
                IN mergePairs(SelectSeq(leftResults, ByValue),
                              slots[order[o]].rightResults, join, fromTable)])

\* the loop of performOptimizedJoin over the fetches in the order they
\* completed
assembleJoined_InArrivalOrder(slots, arrival, leftResults, join, fromTable) ==
    joinSlots(slots, arrival, leftResults, join, fromTable)

\* the loop of performOptimizedJoin over the array Promise.all resolves to:
\* one entry per promise, in the order of queryPromises
assembleJoined(slots, arrival, leftResults, join, fromTable) ==
    joinSlots(slots, [i \in 1..Len(slots) |-> i], leftResults, join, fromTable)

\* performJoin of queryBuilder.ts without index: rightMap, then the loop
\* over the left rows (Map keys compare undefined and null as values)
performHashJoin(data, leftResults, join, fromTable, globalWhereClause) ==
    Let(collect(data, IF globalWhereClause # NoClause
                      THEN withFilter(NewQuery(join.table),
                                      buildFilterExpression(globalWhereClause,
                                                            join.table))
                      ELSE NewQuery(join.table)),
        LAMBDA rightResults :
            Flatten([l \in 1..Len(leftResults) |->
                        LET SameKey(rightRow) ==
                                Get(rightRow, join.on.rightField)
                                = Get(leftResults[l], join.on.leftField)
                        IN mergePairs(<<leftResults[l]>>,
                                      SelectSeq(rightResults, SameKey),
                                      join, fromTable)]))

\* leftResults of executeSelectWithJoin (queryBuilder.ts), no index hint on
\* the FROM table
leftRowsOf(data, s) ==
    collect(data, IF s.where # NoClause
                  THEN withFilter(NewQuery(s.from),
                                  buildFilterExpression(s.where, s.from))
                  ELSE NewQuery(s.from))

(***************************************************************************)
(* SpecOptimizedJoin: performOptimizedJoin on the left rows of a           *)
(* statement with one hinted JOIN; its fetches complete in any order.      *)
(***************************************************************************)
OnEqual(leftTable, leftField, rightTable, rightField) ==
    [leftTable |-> leftTable, leftField |-> leftField, operator |-> "=",
     rightTable |-> rightTable, rightField |-> rightField]

HintedJoin(table, index, on) ==
    [type |-> "INNER", table |-> table, index |-> index, on |-> on]

\* the FROM table with the hinted JOIN: the join field is the first column
\* of the index, or is not
OptimizedJoins ==
    {[from |-> "users",
      join |-> HintedJoin("posts", "by_author",
                          OnEqual("users", "_id", "posts", "authorId"))],
     [from |-> "posts",
      join |-> HintedJoin("users", "by_status",
                          OnEqual("posts", "authorId", "users", "_id"))],
     [from |-> "users",
      join |-> HintedJoin("users", "by_status",
                          OnEqual("users", "status", "users", "status"))],
     [from |-> "users",
      join |-> HintedJoin("users", "by_status_and_age",
                          OnEqual("users", "age", "users", "age"))],
     [from |-> "users",
      join |-> HintedJoin("numbers", "by_value",
                          OnEqual("users", "age", "numbers", "value"))],
     [from |-> "users",
      join |-> HintedJoin("posts", "by_status",
                          OnEqual("users", "_id", "posts", "authorId"))]}

StatusEquals(value) ==
    [type |-> "COMPARISON", table |-> "users", field |-> "status",
     operator |-> "=", value |-> StrVal(value)]

OptimizedStatements ==
    {[type |-> "SELECT", columns |-> <<StarColumn>>, from |-> j.from,
      joins |-> <<j.join>>, where |-> where] :
        j \in OptimizedJoins,
        where \in {NoClause, StatusEquals("active")}}

\* the tables of schema.ts, the numbers table empty
OptimizedDatabases ==
    {[users |-> d.users, posts |-> d.posts, numbers |-> <<>>] : d \in OrderDatabases}

InitOptimizedJoin ==
    /\ sql = NoSource
    /\ tokens = <<>>
    /\ limits = QueryLimits(JoinCap, JoinCap, FALSE, {})
    /\ db \in OptimizedDatabases
    /\ pc = "joining"
    /\ statement \in OptimizedStatements
    /\ parsed = statement
    /\ result = <<>>
    /\ error = NoError
    /\ calls = <<>>
    /\ queryResults = <<>>
    /\ settled = <<>>
    /\ schemaModule = SchemaTs
    /\ indexCache = NullValue
    /\ schemaInfo = NullValue
    /\ received = NullValue

\* leftJoinValues, as performJoin hands them to performOptimizedJoin
LeftJoinValues ==
    extractJoinValues(leftRowsOf(db, statement), statement.joins[1].on.leftField)

\* leftJoinValues.map(async ...): every callback runs up to its await; one
\* that throws rejects its promise, and Promise.all with it
StartFetches ==
    /\ pc = "joining"
    /\ LET registry == getIndexRegistry(indexCache, schemaModule)
           queries == [i \in 1..Len(LeftJoinValues) |->
                          joinValueQuery(statement.joins[1], LeftJoinValues[i],
                                         statement.where, registry.val)]
           Rejected == {i \in 1..Len(LeftJoinValues) : ~queries[i].ok}
       IN /\ indexCache' = IF Len(LeftJoinValues) > 0 THEN registry.memo
                           ELSE indexCache
          /\ IF Rejected # {}
             THEN /\ pc' = "joinError"
                  /\ error' = queries[CHOOSE i \in Rejected :
                                         \A h \in Rejected : i <= h].err
                  /\ queryResults' = <<>>
             ELSE /\ pc' = "fetching"
                  /\ error' = NoError
                  /\ queryResults' = [i \in 1..Len(LeftJoinValues) |-> NoResult]
    /\ settled' = <<>>
    /\ UNCHANGED <<sql, tokens, limits, db, statement, parsed, result, calls,
                   schemaModule, schemaInfo, received>>

\* one fetch completes: rightQuery.collect() resolves and the callback
\* returns { joinValue, rightResults }
CompleteFetch(i) ==
    /\ pc = "fetching"
    /\ queryResults[i] = NoResult
    /\ queryResults' =
          [queryResults EXCEPT ![i] =
              [pending |-> FALSE,
               joinValue |-> LeftJoinValues[i],
               rightResults |->
                   collect(db, joinValueQuery(statement.joins[1], LeftJoinValues[i],
                                              statement.where, indexCache.value).query)]]
    /\ settled' = Append(settled, i)
    /\ UNCHANGED <<sql, tokens, limits, db, pc, statement, parsed, result, error, calls,
                   cacheVars>>

\* Promise.all resolved: the loop over queryResults builds the joined rows
Assemble ==
    /\ pc = "fetching"
    /\ \A i \in 1..Len(queryResults) : queryResults[i] # NoResult
    /\ pc' = "joined"
    /\ result' = assembleJoined(queryResults, settled, leftRowsOf(db, statement),
                                statement.joins[1], statement.from)
    /\ UNCHANGED <<sql, tokens, limits, db, statement, parsed, error, calls,
                   joinVars, cacheVars>>

NextOptimizedJoin ==
    \/ StartFetches
    \/ \E i \in 1..Len(queryResults) : CompleteFetch(i)
    \/ Assemble

SpecOptimizedJoin == InitOptimizedJoin /\ [][NextOptimizedJoin]_vars

\* the JOIN of the statement and the left rows it is applied to
TheJoin == statement.joins[1]
LeftRows == leftRowsOf(db, statement)

\* the merged rows of the canonical join: the right table collected under
\* the WHERE conditions, a hash map on the right join field, one lookup per
\* left row
CanonicalJoin == performHashJoin(db, LeftRows, TheJoin, statement.from, statement.where)

\* C22: for a JOIN with a hint naming an index of the right table,
\* performOptimizedJoin returns the same multiset of merged rows as the
\* canonical collect-then-hash-map join over the same left rows and the
\* same right table, whatever the two tables hold.
C22_OptimizedJoinSameRows ==
    pc = "joined" => SameMultiset(result, CanonicalJoin)

\* the documents of the right table that hold the join value and pass the
\* WHERE conditions on that table, in creation order
RightMatches(joinValue) ==
    LET Matches(doc) ==
            /\ Get(doc, TheJoin.on.rightField) = joinValue
            /\ statement.where # NoClause =>
                  EvalPred(doc, buildFilterExpression(statement.where, TheJoin.table))
    IN SelectSeq(db[TheJoin.table], Matches)

\* the left rows that hold the join value, in the order of leftResults
LeftMatches(joinValue) ==
    LET Holds(leftRow) == Get(leftRow, TheJoin.on.leftField) = joinValue
    IN SelectSeq(LeftRows, Holds)

\* C23: the sequence of rows performOptimizedJoin returns is the same for
\* every order in which the concurrent fetches complete: the rows are
\* assembled join value by join value in the order of the distinct left
\* join values, never in the order the fetches arrived.
C23_AssembledByJoinValue ==
    pc = "joined" =>
        result = Flatten([i \in 1..Len(LeftJoinValues) |->
                             mergePairs(LeftMatches(LeftJoinValues[i]),
                                        RightMatches(LeftJoinValues[i]),
                                        TheJoin, statement.from)])

\* the fetches completed in another order than they were started, and rows
\* of two join values were returned
C23_Witness ==
    /\ pc = "joined"
    /\ \E i \in 1..Len(settled) : settled[i] # i
    /\ \E a \in 1..Len(result) : \E b \in 1..Len(result) :
          Get(result[a], Qualified(TheJoin.table, TheJoin.on.rightField))
          # Get(result[b], Qualified(TheJoin.table, TheJoin.on.rightField))

(***************************************************************************)
(* SpecRegistry: sequences of getIndexRegistry and getSchema calls, on     *)
(* the schema of schema.ts and on schema objects the two functions throw   *)
(* on (no tables property, a table without " indexes"() method).           *)
(***************************************************************************)
MaxCalls == 4       \* a run makes at most MaxCalls calls

\* schema.ts with the " indexes"() method present or absent on each table
SchemaModules ==
    {[hasTables |-> TRUE,
      tables |-> [t \in 1..Len(SchemaTables) |->
                     [SchemaTables[t] EXCEPT !.hasIndexesMethod = t \notin without]]] :
        without \in SUBSET (1..Len(SchemaTables))}
    \cup {[hasTables |-> FALSE, tables |-> <<>>]}

InitRegistry ==
    /\ sql = NoSource
    /\ tokens = <<>>
    /\ limits = QueryLimits(MaxCfg, MaxCfg, FALSE, {})
    /\ db = Database(0, 0)
    /\ pc = "idle"
    /\ statement = NoStatement
    /\ parsed = NoStatement
    /\ result = <<>>
    /\ error = NoError
    /\ calls = <<>>
    /\ queryResults = <<>>
    /\ settled = <<>>
    /\ schemaModule \in SchemaModules
    /\ indexCache = NullValue
    /\ schemaInfo = NullValue
    /\ received = NullValue

\* a call of getIndexRegistry()
CallGetIndexRegistry ==
    /\ Len(calls) < MaxCalls
    /\ LET r == getIndexRegistry(indexCache, schemaModule)
       IN /\ indexCache' = r.memo
          /\ received' = IF r.ok THEN Memo(r.val) ELSE NullValue
          /\ error' = r.err
          /\ pc' = IF r.ok THEN "returned" ELSE "threw"
    /\ calls' = Append(calls, "getIndexRegistry")
    /\ UNCHANGED <<sql, tokens, limits, db, statement, parsed, result, joinVars,
                   schemaModule, schemaInfo>>

\* a call of ctx.getSchema()
CallGetSchema ==
    /\ Len(calls) < MaxCalls
    /\ LET r == getSchema(schemaInfo, schemaModule)
       IN /\ schemaInfo' = r.memo
          /\ received' = IF r.ok THEN Memo(r.val) ELSE NullValue
          /\ error' = r.err
          /\ pc' = IF r.ok THEN "returned" ELSE "threw"
    /\ calls' = Append(calls, "getSchema")
    /\ UNCHANGED <<sql, tokens, limits, db, statement, parsed, result, joinVars,
                   schemaModule, indexCache>>

NextRegistry == CallGetIndexRegistry \/ CallGetSchema

SpecRegistry == InitRegistry /\ [][NextRegistry]_vars

\* the index metadata of schema.ts: what getIndexRegistry is to return
\* (tables with indexes only) and what getSchema is to return
CompleteRegistry ==
    [users |-> [by_status |-> <<"status">>,
                by_status_and_age |-> <<"status", "age">>],
     posts |-> [by_author |-> <<"authorId">>]]
CompleteSchemaInfo ==
    [numbers |-> [indexes |-> <<>>],
     users |-> [indexes |-> CompleteRegistry.users],
     posts |-> [indexes |-> CompleteRegistry.posts]]

\* what the last call returned is the complete index metadata
ReceivedIsComplete ==
    (pc = "returned") =>
        received.value = IF calls[Len(calls)] = "getIndexRegistry"
                         THEN CompleteRegistry
                         ELSE CompleteSchemaInfo

\* a memoized value that is set is not changed by the step, and the call of
\* the step returns it
MemoKept ==
    /\ ~indexCache.isNull =>
          /\ indexCache' = indexCache
          /\ calls' = Append(calls, "getIndexRegistry") => received' = indexCache
    /\ ~schemaInfo.isNull =>
          /\ schemaInfo' = schemaInfo
          /\ calls' = Append(calls, "getSchema") => received' = schemaInfo

\* C24: the memoized index metadata (indexCache of getIndexRegistry,
\* schemaInfo of getSchema) is written once and never changed afterwards:
\* over every sequence of calls, calls that throw included, any registry a
\* caller receives is the complete index metadata of the schema, and all
\* later calls return that same value.
C24_MemoWrittenOnceAndComplete ==
    /\ []ReceivedIsComplete
    /\ [][MemoKept]_vars

(***************************************************************************)
(* SpecFunctions: executeSQL on SELECT f(args) FROM users, for the         *)
(* functions the engine knows and one it does not, with no argument, *,    *)
(* users.*, one column and two columns, on users with and without age.     *)
(***************************************************************************)
FunctionNames == {"COUNT", "SUM", "AVG", "MIN", "MAX", "ABS", "UPPER"}

FunctionArguments ==
    {None, <<Star>>, <<W("users"), Dot, Star>>,
     Column("age"), Column("status"), Column("_creationTime"),
     Column("age") \o <<Comma>> \o Column("status")}

FunctionQueries ==
    {SelectQuery(Call(fn, arg), <<W("users")>>, None, where, None, None, None, None) :
        fn \in FunctionNames,
        arg \in FunctionArguments,
        where \in {None, Where(StatusIs("active")), Where(StatusIs("pending"))}}

FunctionConfigs == {QueryLimits(MaxUsers + 2, MaxUsers + 2, FALSE, {})}

InitFunctions == InitFamily(FunctionQueries, FunctionConfigs, OrderDatabases)

SpecFunctions == InitFunctions /\ [][Next]_vars

\* the one column of the statement is a call of an aggregate function
TheCall == parsed.columns[1]
Aggregates == {"COUNT", "SUM", "AVG", "MIN", "MAX"}
IsAggregateCall ==
    /\ Len(parsed.columns) = 1
    /\ TheCall.type = "FUNCTION"
    /\ TheCall.name \in Aggregates

\* the call has the argument its function takes: one column, or * for COUNT
HasOneColumn == Len(TheCall.args) = 1 /\ TheCall.args[1].type = "COLUMN"
IsCountStar ==
    TheCall.name = "COUNT" /\ Len(TheCall.args) = 1 /\ TheCall.args[1].type = "STAR"

\* the values of the argument column over the rows matching the statement,
\* and those that are neither null nor missing
ColumnValues == [i \in 1..Len(MatchingRows) |-> Get(MatchingRows[i], TheCall.args[1].name)]
PresentValues ==
    LET Present(v) == v # NULL /\ v # UNDEF
    IN SelectSeq(ColumnValues, Present)

\* the sum of the values, null and missing ones counting as 0
SumOfValues ==
    SeqSum([i \in 1..Len(ColumnValues) |->
               IF ColumnValues[i] \in {NULL, UNDEF} THEN 0 ELSE ColumnValues[i]])

\* the least (greatest) of the present values
LeastValue == CHOOSE m \in Range(PresentValues) : \A v \in Range(PresentValues) : m <= v
GreatestValue == CHOOSE m \in Range(PresentValues) : \A v \in Range(PresentValues) : m >= v

\* the column holds numbers only, besides null and missing values
HoldsNumbers == \A v \in Range(PresentValues) : ~IsString(v)

\* the value the query returned for the call
CallValue == result[1][FunctionKey(TheCall)]

\* an aggregate call with its argument was executed and returned one row
AggregateReturned ==
    /\ pc = "done"
    /\ Len(result) = 1
    /\ DOMAIN result[1] = {FunctionKey(TheCall)}

IsFunctionCall == Len(parsed.columns) = 1 /\ TheCall.type = "FUNCTION"

\* C26: evaluating a function column fails with an error for every function
\* name other than COUNT, SUM, AVG, MIN, MAX and ABS, and for every
\* aggregate (COUNT, SUM, AVG, MIN, MAX) called with anything other than its
\* one column argument (or * for COUNT); the error names the function.
C26_BadFunctionCallsFail ==
    (Executed /\ IsFunctionCall) =>
        /\ TheCall.name \notin Aggregates \cup {"ABS"} =>
              /\ pc = "executeError"
              /\ error = Err("UnknownFunction", TheCall.name)
        /\ (TheCall.name \in Aggregates /\ ~(HasOneColumn \/ IsCountStar)) =>
              /\ pc = "executeError"
              /\ error = Err("FunctionRequiresColumn", TheCall.name)


(***************************************************************************)
(* SpecQualified: executeSQL on SELECT f(users.col) FROM users and on      *)
(* SELECT f(col) FROM users, and on the plain columns users.col and col.   *)
(***************************************************************************)
QualifiedColumns == {"age", "status", "_creationTime"}

QualifiedQueries ==
    {SelectQuery(columns, <<W("users")>>, None, where, None, None, None, None) :
        columns \in {Call(fn, arg) :
                        fn \in Aggregates,
                        arg \in {Dotted("users", c) : c \in QualifiedColumns}
                                 \cup {Column(c) : c \in QualifiedColumns}}
                    \cup {Dotted("users", c) : c \in QualifiedColumns}
                    \cup {Column(c) : c \in QualifiedColumns},
        where \in {None, Where(StatusIs("active"))}}

InitQualified == InitFamily(QualifiedQueries, FunctionConfigs, OrderDatabases)

SpecQualified == InitQualified /\ [][Next]_vars

\* the statement with the table qualifier of its columns and of the
\* arguments of its function calls left out
WithoutQualifier(s) ==
    [s EXCEPT !.columns =
        [i \in 1..Len(s.columns) |->
            [s.columns[i] EXCEPT
                !.table = NONE,
                !.args = [a \in 1..Len(s.columns[i].args) |->
                             [s.columns[i].args[a] EXCEPT !.table = NONE]]]]]

\* what executeSQLStatement returns for the unqualified statement
UnqualifiedResult == executeSQLStatement(db, WithoutQualifier(statement), limits)

\* the call is an aggregate over a column qualified with the FROM table
IsQualifiedAggregate ==
    /\ Len(parsed.joins) = 0
    /\ IsAggregateCall
    /\ HasOneColumn
    /\ TheCall.args[1].table = parsed.from

\* the one column is a plain column qualified with the FROM table
IsQualifiedColumn ==
    /\ Len(parsed.joins) = 0
    /\ Len(parsed.columns) = 1
    /\ TheCall.type = "COLUMN"
    /\ TheCall.table = parsed.from

\* plain projection: SELECT users.col FROM users returns, row by row and
\* under the key col, the values SELECT col FROM users returns
QualifiedColumnSameAsUnqualified ==
    (Executed /\ IsQualifiedColumn) =>
        /\ (pc = "done") = UnqualifiedResult.ok
        /\ pc = "done" =>
              /\ Len(result) = Len(UnqualifiedResult.rows)
              /\ \A r \in 1..Len(result) :
                    Get(result[r], TheCall.name)
                        = Get(UnqualifiedResult.rows[r], TheCall.name)

\* C30: in a query without JOIN, an aggregate over a table-qualified column
\* of the FROM table returns the same value as the same aggregate over the
\* unqualified column.
C30_QualifiedAggregateSameAsUnqualified ==
    (Executed /\ IsQualifiedAggregate) =>
        /\ (pc = "done") = UnqualifiedResult.ok
        /\ pc = "done" =>
              /\ Len(result) = 1
              /\ Len(UnqualifiedResult.rows) = 1
              /\ CallValue =
                    UnqualifiedResult.rows[1][FunctionKey(WithoutQualifier(statement).columns[1])]


(***************************************************************************)
(* SpecPredicates: executeSQL on SELECT * FROM users with a WHERE or a     *)
(* HAVING clause: chains of up to MaxComparisons comparisons joined with   *)
(* AND and OR in every order, and every sequence of up to MaxClauseTokens  *)
(* tokens, well-formed or not.                                             *)
(***************************************************************************)
MaxComparisons == 4
MaxClauseTokens == 3

\* the i-th comparison of a chain: age > 20 + i
ChainComparison(i) == Cmp(Column("age"), ">", Num(NumStr(20 + i)))

\* the connectives of the chains: AND or OR between neighbours
ChainConnectives ==
    UNION {[1..k -> {"AND", "OR"}] : k \in 0..(MaxComparisons - 1)}

\* the tokens of the chain of the first n comparisons
RECURSIVE ChainTokens(_, _)
ChainTokens(ops, n) ==
    IF n = 1 THEN ChainComparison(1)
    ELSE ChainTokens(ops, n - 1) \o <<W(ops[n - 1])>> \o ChainComparison(n)

ChainQuery(clause, ops) ==
    SelectQuery(<<Star>>, <<W("users")>>, None,
                IF clause = "WHERE" THEN Where(ChainTokens(ops, Len(ops) + 1)) ELSE None,
                None,
                IF clause = "HAVING" THEN Having(ChainTokens(ops, Len(ops) + 1)) ELSE None,
                None, None)

ChainQueries == {ChainQuery(clause, ops) : clause \in {"WHERE", "HAVING"}, ops \in ChainConnectives}

\* every sequence of tokens of a clause, up to MaxClauseTokens of them
ClauseTokens == {W("age"), Op(">"), Num("21"), W("AND"), W("OR"), LParen}
TokenSequences == UNION {[1..k -> ClauseTokens] : k \in 0..MaxClauseTokens}

SequenceQueries ==
    {SelectQuery(<<Star>>, <<W("users")>>, None,
                 IF clause = "WHERE" THEN Where(sequence) ELSE None,
                 None,
                 IF clause = "HAVING" THEN Having(sequence) ELSE None,
                 None, None) :
        clause \in {"WHERE", "HAVING"}, sequence \in TokenSequences}

InitPredicates ==
    \/ InitFamily(ChainQueries, FunctionConfigs, OrderDatabases)
    \/ InitFamily(SequenceQueries, FunctionConfigs, {SparseDatabase(MaxUsers)})

SpecPredicates == InitPredicates /\ [][Next]_vars

\* the tree of the grammar  or_expr := and_expr ('OR' and_expr)* ,
\* and_expr := comparison ('AND' comparison)*  for the comparisons lo..hi
\* of a chain: the last OR is the root, with an AND-only chain to its
\* right; without OR, the last AND is the root, with one comparison to its
\* right
RECURSIVE GrammarTree(_, _, _)
GrammarTree(ops, lo, hi) ==
    LET ors == {k \in lo..(hi - 1) : ops[k] = "OR"}
        lastOr == CHOOSE k \in ors : \A j \in ors : j <= k
    IN IF lo = hi THEN Comparison(NONE, "age", ">", 20 + lo)
       ELSE IF ors # {}
       THEN [type |-> "OR",
             left |-> GrammarTree(ops, lo, lastOr),
             right |-> GrammarTree(ops, lastOr + 1, hi)]
       ELSE [type |-> "AND",
             left |-> GrammarTree(ops, lo, hi - 1),
             right |-> GrammarTree(ops, hi, hi)]

\* the parser has run on the tokens
Parsed == pc # "start"

\* the parser returned an AST or threw an error
AstOrError ==
    \/ pc = "parseError" /\ error # NoError /\ parsed = NoStatement
    \/ pc # "parseError" /\ parsed.type = "SELECT"

\* C27: for WHERE and HAVING the parser builds a binary tree in which AND
\* binds tighter than OR and chains of the same operator associate to the
\* left ('a OR b AND c' is OR(a, AND(b, c)), 'a AND b OR c' is
\* OR(AND(a, b), c)); parsing ends on every token sequence ending in EOF,
\* with an AST or an error.
C27_AndBindsTighterThanOr ==
    Parsed =>
        /\ AstOrError
        /\ \A ops \in ChainConnectives :
              /\ tokens = ChainQuery("WHERE", ops) =>
                    /\ pc # "parseError"
                    /\ parsed.where = GrammarTree(ops, 1, Len(ops) + 1)
                    /\ parsed.having = NoClause
              /\ tokens = ChainQuery("HAVING", ops) =>
                    /\ pc # "parseError"
                    /\ parsed.having = GrammarTree(ops, 1, Len(ops) + 1)
                    /\ parsed.where = NoClause

\* a OR b AND c OR d was parsed to OR(OR(a, AND(b, c)), d)
C27_Witness ==
    /\ Parsed
    /\ tokens = ChainQuery("WHERE", <<"OR", "AND", "OR">>)
    /\ parsed.where =
          [type |-> "OR",
           left |-> [type |-> "OR",
                     left |-> Comparison(NONE, "age", ">", 21),
                     right |-> [type |-> "AND",
                                left |-> Comparison(NONE, "age", ">", 22),
                                right |-> Comparison(NONE, "age", ">", 23)]],
           right |-> Comparison(NONE, "age", ">", 24)]


(***************************************************************************)
(* SpecJoinWhere: executeSQL on SELECT * FROM users INNER JOIN posts (and  *)
(* posts INNER JOIN users) with a WHERE clause of one, two or three        *)
(* table-qualified comparisons joined with AND and OR, on one table and    *)
(* across the two.                                                         *)
(***************************************************************************)
QualifiedComparisons ==
    {Cmp(Dotted("users", "status"), "=", Str("active")),
     Cmp(Dotted("users", "age"), ">", Num("30")),
     Cmp(Dotted("posts", "_creationTime"), ">", Num("11"))}

JoinPredicates ==
    QualifiedComparisons
    \cup {And(a, b) : a, b \in QualifiedComparisons}
    \cup {Or(a, b) : a, b \in QualifiedComparisons}
    \cup {Or(And(a, b), c) : a, b, c \in QualifiedComparisons}
    \cup {Or(a, And(b, c)) : a, b, c \in QualifiedComparisons}

JoinWhereQueries ==
    {SelectQuery(<<Star>>, tables.from, InnerJoin(tables.table, UsersWritePosts),
                 Where(predicate), None, None, None, None) :
        tables \in {[from |-> <<W("users")>>, table |-> <<W("posts")>>],
                    [from |-> <<W("posts")>>, table |-> <<W("users")>>]},
        predicate \in JoinPredicates}

JoinWhereDatabases ==
    {Database(nUsers, MaxPosts) : nUsers \in 1..MaxUsers}
    \cup {Database(MaxUsers, nPosts) : nPosts \in 0..MaxPosts}

InitJoinWhere ==
    InitFamily(JoinWhereQueries, {QueryLimits(JoinCap, JoinCap, FALSE, {})},
               JoinWhereDatabases)

SpecJoinWhere == InitJoinWhere /\ [][Next]_vars

\* the WHERE predicate on the pair of a left row and a right row, each
\* comparison read from the row of its own table
RECURSIVE WhereHoldsOnPair(_, _, _)
WhereHoldsOnPair(leftRow, rightRow, where) ==
    CASE where.type = "COMPARISON" ->
            Compare(where.operator,
                    PairValue(leftRow, rightRow, where.table, where.field),
                    where.value)
      [] where.type = "AND" ->
            WhereHoldsOnPair(leftRow, rightRow, where.left)
                /\ WhereHoldsOnPair(leftRow, rightRow, where.right)
      [] where.type = "OR" ->
            WhereHoldsOnPair(leftRow, rightRow, where.left)
                \/ WhereHoldsOnPair(leftRow, rightRow, where.right)

\* the merged rows of the pairs that satisfy ON and WHERE, left row by left
\* row
PairsSatisfyingWhere ==
    LET PairsOf(leftRow) ==
            LET Matches(rightRow) ==
                    /\ OnHolds(leftRow, rightRow)
                    /\ WhereHoldsOnPair(leftRow, rightRow, parsed.where)
                matching == SelectSeq(db[parsed.joins[1].table], Matches)
            IN [m \in 1..Len(matching) |->
                   mergeRows(leftRow, matching[m], parsed.joins[1], parsed.from)]
    IN Flatten([l \in 1..Len(db[parsed.from]) |-> PairsOf(db[parsed.from][l])])

\* C28: for a JOIN query whose WHERE comparisons are all table-qualified,
\* the returned rows are exactly the joined pairs that satisfy the WHERE
\* predicate evaluated on the merged row, for every predicate built from
\* AND and OR, predicates that combine conditions on different tables
\* included.
C28_JoinWhereOnMergedRow ==
    (Executed /\ IsJoinStar /\ parsed.where # NoClause) =>
        /\ pc = "done"
        /\ result = PairsSatisfyingWhere


(***************************************************************************)
(* The Lexer (lexer.ts of lib/sql): tokenize, on a string given as the     *)
(* sequence of its lexemes, whitespace left out.                           *)
(***************************************************************************)
Lexeme(kind, text) == [kind |-> kind, text |-> text]

\* the token of one lexeme, or the lexical error: a quoted string that is
\* not closed before the end of the input, a character that starts no token
tokenOf(lexeme) ==
    CASE lexeme.kind = "word" -> Ok(tokenizeIdentifierOrKeyword(lexeme.text))
      [] lexeme.kind = "number" -> Ok(Num(lexeme.text))
      [] lexeme.kind = "string" -> Ok(Str(lexeme.text))
      [] lexeme.kind = "openString" -> Fail(Err("UnterminatedString", lexeme.text))
      [] lexeme.kind = "character" ->
            CASE lexeme.text = "*" -> Ok(Star)
              [] lexeme.text = "," -> Ok(Comma)
              [] lexeme.text = "." -> Ok(Dot)
              [] lexeme.text = "@" -> Ok(At)
              [] lexeme.text = "(" -> Ok(LParen)
              [] lexeme.text = ")" -> Ok(RParen)
              [] lexeme.text \in ComparisonOperators -> Ok(Op(lexeme.text))
              [] OTHER -> Fail(Err("UnexpectedCharacter", lexeme.text))

\* the loop of Lexer.tokenize from the lexeme at position on
RECURSIVE tokenizeLoop(_, _, _)
tokenizeLoop(source, position, toks) ==
    IF position > Len(source) THEN Ok(Append(toks, EOF))
    ELSE Let(tokenOf(source[position]), LAMBDA token :
            IF ~token.ok THEN token
            ELSE tokenizeLoop(source, position + 1, Append(toks, token.val)))

\* Lexer.tokenize: the tokens, EOF last, or the first lexical error
tokenize(source) == tokenizeLoop(source, 1, <<>>)

(***************************************************************************)
(* SpecPipeline: executeSQL from the SQL string on: the Lexer, the Parser, *)
(* validateQueryLimits, executeSQLStatement, on queries that each of the   *)
(* four rejects and on queries that return rows.                           *)
(***************************************************************************)
\* new Lexer(sql).tokenize()
Lex ==
    /\ pc = "lexing"
    /\ LET t == tokenize(sql)
       IN /\ pc' = IF t.ok THEN "start" ELSE "lexError"
          /\ tokens' = IF t.ok THEN t.val ELSE <<>>
          /\ error' = t.err
    /\ UNCHANGED <<sql, limits, db, statement, parsed, result, calls, joinVars,
                   cacheVars>>

NextPipeline == Lex \/ Parse \/ Validate \/ Execute

\* the lexeme a token is read from
LexemeOf(token) ==
    CASE token.type \in {"KEYWORD", "IDENTIFIER"} -> Lexeme("word", token.value)
      [] token.type = "NUMBER" -> Lexeme("number", token.value)
      [] token.type = "STRING" -> Lexeme("string", token.value)
      [] OTHER -> Lexeme("character", token.value)

\* the string a query is written as: the lexemes of its tokens, without EOF
SourceOf(query) == [i \in 1..(Len(query) - 1) |-> LexemeOf(query[i])]

PipelineQueries ==
    {SelectQuery(<<Star>>, from, joins, where, None, None, None, limit) :
        from \in {<<W("users")>>, <<W("orders")>>, Hint("users", "by_status")},
        joins \in {None, JoinOn("posts", "authorId"), JoinOn("comments", "authorId")},
        where \in {None, Where(StatusIs("active"))},
        limit \in {None, Limit(1), Limit(MaxCfg + 1)}}
    \cup {<<W("SELECT"), W("FROM"), W("users"), EOF>>,
          <<W("SELECT"), Star, W("FROM"), W("users"), W("WHERE"), EOF>>,
          <<W("DELETE"), W("FROM"), W("users"), EOF>>}

\* a character that starts no token, and a string without its closing quote
StrayCharacter == Lexeme("character", "#")
OpenString == Lexeme("openString", "active")

\* the source with one more lexeme before position k
WithLexeme(source, k, lexeme) ==
    SubSeq(source, 1, k - 1) \o <<lexeme>> \o SubSeq(source, k, Len(source))

PipelineSources ==
    {SourceOf(query) : query \in PipelineQueries}
    \cup UNION {{WithLexeme(SourceOf(query), k, StrayCharacter) :
                    k \in {1, 4, Len(query)}} : query \in PipelineQueries}
    \cup {WithLexeme(SourceOf(query), Len(query), OpenString) : query \in PipelineQueries}

PipelineConfigs ==
    {QueryLimits(MaxCfg, MaxCfg, requireLimit, {}) : requireLimit \in BOOLEAN}

InitPipeline ==
    /\ sql \in PipelineSources
    /\ tokens = <<>>
    /\ limits \in PipelineConfigs
    /\ db \in SmallDatabases
    /\ pc = "lexing"
    /\ statement = NoStatement
    /\ parsed = NoStatement
    /\ result = <<>>
    /\ error = NoError
    /\ calls = <<>>
    /\ queryResults = <<>>
    /\ settled = <<>>
    /\ schemaModule = SchemaTs
    /\ indexCache = NullValue
    /\ schemaInfo = NullValue
    /\ received = NullValue

SpecPipeline == InitPipeline /\ [][NextPipeline]_vars

\* the i-th call on the DatabaseContext is a call of query
IsQueryCall(i) == calls[i] # "getSchema"

\* C29: executeSQL runs the lexer, the parser and validateQueryLimits before
\* the first call on the DatabaseContext: when the query is rejected by one
\* of the three, neither getSchema nor query was called, and getSchema is
\* called before the first call of query.
C29_ContextCalledAfterValidation ==
    /\ pc \in {"lexing", "start", "parsed", "validated",
               "lexError", "parseError", "limitError"} => calls = <<>>
    /\ \A i \in 1..Len(calls) :
          IsQueryCall(i) => \E j \in 1..(i - 1) : calls[j] = "getSchema"

\* a query written with a JOIN was lexed, parsed and validated, then read
\* the schema and queried the two tables
C29_Witness ==
    /\ pc = "done"
    /\ sql # NoSource
    /\ calls = <<"getSchema", QueryCall("users"), QueryCall("posts")>>

====
